---- MODULE Spec2Model ----
(***************************************************************************)
(* A state-machine model of the SVI calibration library (surface-lib):     *)
(* the public entry points calibrate_svi and evaluate_svi of src/lib.rs,   *)
(* the pipeline of src/calibration/pipeline.rs (calibrate_model and        *)
(* calibrate_model_adaptive) and the calibrator of                         *)
(* src/models/svi/svi_calibrator.rs.                                       *)
(*                                                                         *)
(* Numbers.  An f64 of the program is a fixed-point integer in hundredths: *)
(* the model value 25 stands for 0.25.  A product of two values is         *)
(* rescaled by 100 where the code multiplies (floor division plays the     *)
(* part of floating-point rounding).  Two values of the code do not fit    *)
(* this scale and are stood for by large integers: the objective's         *)
(* sentinel 1.0e12 (Sentinel) and f64::MAX (F64Max).                       *)
(*                                                                         *)
(* The optimizers.  canonical_cmaes_optimize and lbfgsb_optimize belong to *)
(* the external crate cmaes_lbfgsb.  The model takes from them only what   *)
(* the pipeline relies on: a run returns a point of the box it was given   *)
(* (a candidate projected onto the box, coordinate by coordinate),         *)
(* L-BFGS-B may instead end in an error, and a run is a function of its    *)
(* arguments when the seed is fixed and parallel_eval is false.  Which     *)
(* point a run returns is otherwise free: the variable memo is that        *)
(* function, drawn as the runs happen.                                     *)
(***************************************************************************)
EXTENDS Integers, Sequences, FiniteSets, TLC

VARIABLES
    pc,          \* where the caller is: "idle", "run", "done", "evaluated",
                 \* "evaluating" (a population), "returned" (a function)
    inp,         \* the arguments of the calibrate_svi call in progress
    cal,         \* the SVIModelCalibrator of the call
    iter,        \* calibrate_model_adaptive: iterations of the loop so far
    stopped,     \* calibrate_model_adaptive: the loop took its break
    best_obj,    \* calibrate_model_adaptive: best_obj
    best_params, \* calibrate_model_adaptive: best_params
    result,      \* what calibrate_svi returned
    evalIn,      \* the arguments of the last evaluate_svi call
    evalRes,     \* what evaluate_svi returned
    memo,        \* the optimizer runs made so far: arguments and outcome
    trace,       \* history of the call: counters and the bounds of each run
    prev,        \* the previous call (arguments and result), if any
    callKind,    \* "first", "same" (a repeated call) or "roundtrip"
    fnIn,        \* the last call of a function of the library: name, arguments
    fnOut        \* what that call returned, in a field named after the
                 \* function; for a population, the frames of the evaluations

vars == <<pc, inp, cal, iter, stopped, best_obj, best_params, result,
          evalIn, evalRes, memo, trace, prev, callKind, fnIn, fnOut>>

-----------------------------------------------------------------------------
(* Bounds of the model and stand-ins for the two out-of-scale values.      *)

\* adaptive_bounds.max_iterations is drawn from 0..MaxIter
MaxIter == 2

\* a slice handed to price_with_svi holds at most MaxRows observations
MaxRows == 3

\* stands for the objective's sentinel 1.0e12
Sentinel == 1000000000

\* stands for f64::MAX
F64Max == 2147483647

\* AdaptiveBoundsConfig::default().max_iterations
DefaultMaxIterations == 3

\* stands for f64::NAN: a value that no comparison finds smaller, greater or
\* equal to anything
NaN == -F64Max

\* the comparisons < and <= of f64, false as soon as one side is NaN
lt(x, y) == x # NaN /\ y # NaN /\ x < y

le(x, y) == x # NaN /\ y # NaN /\ x <= y

-----------------------------------------------------------------------------
(* Option<T> *)

None == [some |-> FALSE, val |-> <<>>]

Some(v) == [some |-> TRUE, val |-> v]

-----------------------------------------------------------------------------
(* Fixed-point helpers *)

Abs(x) == IF x < 0 THEN -x ELSE x

RECURSIVE SqrtIter(_, _)
\* Heron's iteration from above: ends on the largest r with r*r <= n
SqrtIter(n, x) ==
    LET y == (x + n \div x) \div 2
    IN  IF y >= x THEN x ELSE SqrtIter(n, y)

\* f64::sqrt on the integers: the largest r with r*r <= n
Sqrt(n) ==
    IF n <= 0 THEN 0
    ELSE SqrtIter(n, IF n < 256 THEN 16 ELSE IF n < 65536 THEN 256 ELSE 46340)

RECURSIVE SumSeq(_)
SumSeq(s) == IF s = <<>> THEN 0 ELSE Head(s) + SumSeq(Tail(s))

-----------------------------------------------------------------------------
(* Market data (src/calibration/types.rs) *)

Row(ty, k, s, t, iv, v, e) ==
    [option_type |-> ty, strike_price |-> k, underlying_price |-> s,
     years_to_exp |-> t, market_iv |-> iv, vega |-> v, expiration |-> e]

\* The market slices a caller passes, by name.  "single" is one expiry with a
\* symmetric smile, "mixed" carries two expiry tags, "empty" has no row, "nan"
\* is "single" with a NaN market_iv in its second row, "high" is one expiry
\* with volatilities near 100%, "zero_iv" has no positive market_iv under tag
\* 1, "nan_only" is one row with a NaN market_iv, "far" is one row at 70% of
\* the forward.
MarketData(name) ==
    CASE name = "single" ->
           << Row("call",  9000, 10000, 100, 60, 100, 1),
              Row("call", 10000, 10000, 100, 50, 100, 1),
              Row("put",  11000, 10000, 100, 60,  50, 1) >>
      [] name = "mixed" ->
           << Row("call",  9000, 10000, 100, 60, 100, 1),
              Row("call", 10000, 10000, 100, 50, 100, 1),
              Row("call", 11000, 10000, 200, 60, 100, 2) >>
      [] name = "nan" ->
           << Row("call",  9000, 10000, 100, 60, 100, 1),
              Row("call", 10000, 10000, 100, NaN, 100, 1),
              Row("put",  11000, 10000, 100, 60,  50, 1) >>
      [] name = "zero_iv" ->
           << Row("call",  9000, 10000, 100,  0, 100, 1),
              Row("call", 10000, 10000, 100, -5, 100, 1),
              Row("call", 11000, 10000, 100, 60, 100, 2) >>
      [] name = "nan_only" ->
           << Row("call", 10000, 10000, 100, NaN, 100, 1) >>
      [] name = "far" ->
           << Row("call",  7000, 10000, 100, 60, 100, 1) >>
      [] name = "high" ->
           << Row("call",  9000, 10000, 100, 100, 100, 1),
              Row("call", 10000, 10000, 100,  95, 100, 1),
              Row("put",  11000, 10000, 100, 100,  50, 1) >>
      [] OTHER -> << >>

Markets == {"single", "mixed", "empty", "nan"}

-----------------------------------------------------------------------------
(* models::utils and the SVI model (src/models/mod.rs, svi_model.rs) *)

\* f64::ln of a ratio given in hundredths, in hundredths (ln 0.9 = -0.105)
Ln(r) ==
    CASE r <= 70  -> -36
      [] r <= 80  -> -22
      [] r <= 90  -> -11
      [] r <= 100 -> 0
      [] r <= 110 -> 10
      [] r <= 120 -> 18
      [] OTHER    -> 26

\* f64::exp of -z, z in hundredths, in hundredths (exp(-2.5) = 0.082)
ExpNeg(z) ==
    CASE z <= 0   -> 100
      [] z <= 10  -> 90
      [] z <= 25  -> 78
      [] z <= 50  -> 61
      [] z <= 100 -> 37
      [] z <= 150 -> 22
      [] z <= 200 -> 14
      [] z <= 250 -> 8
      [] z <= 275 -> 6
      [] z <= 300 -> 5
      [] z <= 400 -> 2
      [] z <= 500 -> 1
      [] OTHER    -> 0

log_moneyness(strike, spot) == Ln((strike * 100) \div spot)

\* f64::INFINITY, for the arguments of SVIParams::new; -Infinity is its negative
Infinity == 2000000000

\* f64::is_finite
is_finite(x) == x # NaN /\ x # Infinity /\ x # -Infinity

\* a validation whose interval for rho is closed
validate_svi_params_closed_rho(t, a, b, rho, m, sigma) ==
    /\ ~(le(t, 0) \/ ~is_finite(t))
    /\ is_finite(a)
    /\ ~(le(b, 0) \/ ~is_finite(b))
    /\ ~(lt(rho, -100) \/ lt(100, rho) \/ ~is_finite(rho))
    /\ is_finite(m)
    /\ ~(le(sigma, 0) \/ ~is_finite(sigma))
    /\ LET min_variance == a + (b * sigma * Sqrt(10000 - rho * rho)) \div 10000
       IN  ~(min_variance < 0)

\* validate_svi_params: TRUE when the parameters pass every clause, the clauses
\* in the order of the code
validate_svi_params(t, a, b, rho, m, sigma) ==
    /\ ~(le(t, 0) \/ ~is_finite(t))
    /\ is_finite(a)
    /\ ~(le(b, 0) \/ ~is_finite(b))
    /\ ~(le(rho, -100) \/ le(100, rho) \/ ~is_finite(rho))
    /\ is_finite(m)
    /\ ~(le(sigma, 0) \/ ~is_finite(sigma))
    /\ LET min_variance == a + (b * sigma * Sqrt(10000 - rho * rho)) \div 10000
       IN  ~(min_variance < 0)

\* SVIParams::new: Ok(Self { .. }) or an error that carries no parameters
SVIParams_new(t, a, b, rho, m, sigma) ==
    IF validate_svi_params(t, a, b, rho, m, sigma)
    THEN [ok |-> TRUE,
          val |-> [t |-> t, a |-> a, b |-> b, rho |-> rho, m |-> m, sigma |-> sigma]]
    ELSE [ok |-> FALSE, val |-> <<>>]

total_variance_at_k(params, k) ==
    LET k_minus_m == k - params.m
        sqrt_term == Sqrt(k_minus_m * k_minus_m + params.sigma * params.sigma)
    IN  params.a + (params.b * ((params.rho * k_minus_m) \div 100 + sqrt_term)) \div 100

\* model_iv * model_iv * t of evaluate_objective, with implied_vol inlined:
\* implied_vol is sqrt(w / t), or 1e-6 when w <= 0, so its square times t is w,
\* or 1e-12 * t, which is 0 in hundredths.
model_total_variance(params, k) ==
    LET total_var == total_variance_at_k(params, k)
    IN  IF total_var <= 0 THEN 0 ELSE total_var

-----------------------------------------------------------------------------
(* Model-specific parameters (src/model_params.rs) *)

SviModelParams_default == [atm_boost_factor |-> 2500, use_vega_weighting |-> TRUE]

-----------------------------------------------------------------------------
(* The SVI calibrator (src/models/svi/svi_calibrator.rs) *)

SVIParamBounds_default ==
    [a |-> <<-50, 50>>, b |-> <<1, 200>>, rho |-> <<-99, -1>>,
     m |-> <<-100, 100>>, sigma |-> <<1, 200>>]

\* a conversion that reads the first two pairs in the other order
SVIParamBounds_from_swapped(bounds) ==
    IF Len(bounds) # 5 THEN SVIParamBounds_default
    ELSE [a |-> bounds[2], b |-> bounds[1], rho |-> bounds[3],
          m |-> bounds[4], sigma |-> bounds[5]]

\* impl From<&[(f64, f64)]> for SVIParamBounds
SVIParamBounds_from(bounds) ==
    IF Len(bounds) # 5 THEN SVIParamBounds_default
    ELSE [a |-> bounds[1], b |-> bounds[2], rho |-> bounds[3],
          m |-> bounds[4], sigma |-> bounds[5]]

\* the HashMap `grouped` of SVIModelCalibrator::new: its keys
grouped(data) == {data[i].expiration : i \in 1..Len(data)}

\* a check on the number of expirations that only refuses the empty slice
single_expiration_nonempty(data) == Cardinality(grouped(data)) >= 1

\* SVIModelCalibrator::new passes its check on the number of expirations
single_expiration(data) == Cardinality(grouped(data)) = 1

NoCalibrator ==
    [expiration |-> <<0, 0>>, param_bounds |-> <<>>,
     params |-> SviModelParams_default,
     prev_solution |-> None, temporal_reg_lambda |-> 0]

\* a constructor that takes the default box whatever the caller supplies
SVIModelCalibrator_new_default_box(data, param_bounds_opt, model_params) ==
    IF ~single_expiration(data)
    THEN [ok |-> FALSE, val |-> NoCalibrator]
    ELSE LET single_exp_ts == CHOOSE e \in grouped(data) : TRUE
             times == SelectSeq(data, LAMBDA r : r.expiration = single_exp_ts)
             single_avg_t ==
                 SumSeq([i \in 1..Len(times) |-> times[i].years_to_exp]) \div Len(times)
             bounds == SVIParamBounds_default
         IN  [ok |-> TRUE,
              val |-> [expiration |-> <<single_exp_ts, single_avg_t>>,
                       param_bounds |->
                           <<bounds.a, bounds.b, bounds.rho, bounds.m, bounds.sigma>>,
                       params |-> IF model_params.some THEN model_params.val
                                  ELSE SviModelParams_default,
                       prev_solution |-> None,
                       temporal_reg_lambda |-> 0]]

\* SVIModelCalibrator::new: [ok, val]
SVIModelCalibrator_new(data, param_bounds_opt, model_params) ==
    IF ~single_expiration(data)
    THEN [ok |-> FALSE, val |-> NoCalibrator]
    ELSE LET single_exp_ts == CHOOSE e \in grouped(data) : TRUE
             times == SelectSeq(data, LAMBDA r : r.expiration = single_exp_ts)
             single_avg_t ==
                 SumSeq([i \in 1..Len(times) |-> times[i].years_to_exp]) \div Len(times)
             bounds == IF param_bounds_opt.some THEN param_bounds_opt.val
                       ELSE SVIParamBounds_default
         IN  [ok |-> TRUE,
              val |-> [expiration |-> <<single_exp_ts, single_avg_t>>,
                       param_bounds |->
                           <<bounds.a, bounds.b, bounds.rho, bounds.m, bounds.sigma>>,
                       params |-> IF model_params.some THEN model_params.val
                                  ELSE SviModelParams_default,
                       prev_solution |-> None,
                       temporal_reg_lambda |-> 0]]

param_count(c) == Len(c.param_bounds)

\* a setter that takes a vector of any length
set_prev_solution_any_length(c, prev_sol) ==
    [c EXCEPT !.prev_solution = Some(prev_sol)]

set_prev_solution(c, prev_sol) ==
    IF Len(prev_sol) = param_count(c)
    THEN [c EXCEPT !.prev_solution = Some(prev_sol)]
    ELSE c

\* a setter that stores the strength as given, negative or not
set_temporal_reg_lambda_unclamped(c, lambda) ==
    [c EXCEPT !.temporal_reg_lambda = lambda]

set_temporal_reg_lambda(c, lambda) ==
    [c EXCEPT !.temporal_reg_lambda = IF lambda > 0 THEN lambda ELSE 0]

\* the vega factor of one observation's weight
vega_weight(c, row) ==
    IF c.params.use_vega_weighting
    THEN (IF row.vega > 0 THEN row.vega ELSE 100)
    ELSE 100

\* the weight of one observation
row_weight(c, row) ==
    LET k == log_moneyness(row.strike_price, row.underlying_price)
        atm_weight == ExpNeg((c.params.atm_boost_factor * Abs(k)) \div 100)
    IN  (vega_weight(c, row) * atm_weight) \div 100

\* the squared error of one observation, kept in 1e-4 units
row_squared_error(c, params, row) ==
    LET k == log_moneyness(row.strike_price, row.underlying_price)
        t == c.expiration[2]
        model_w == model_total_variance(params, k)
        market_w == (row.market_iv * row.market_iv * t) \div 10000
        diff == model_w - market_w
    IN  IF row.market_iv = NaN THEN NaN ELSE diff * diff

\* the regularisation term of evaluate_objective
penalty(c, x) ==
    IF /\ c.prev_solution.some
       /\ c.temporal_reg_lambda > 0
       /\ Len(c.prev_solution.val) = Len(x)
    THEN (SumSeq([i \in 1..Len(x) |->
                    (x[i] - c.prev_solution.val[i]) * (x[i] - c.prev_solution.val[i])])
          * c.temporal_reg_lambda) \div 10000
    ELSE 0

\* ModelCalibrator::evaluate_objective for SVIModelCalibrator
evaluate_objective(c, x, data) ==
    LET exp_ts == c.expiration[1]
        t == c.expiration[2]
        built == SVIParams_new(t, x[1], x[2], x[3], x[4], x[5])
        used == SelectSeq(data, LAMBDA row :
                    row.expiration = exp_ts /\ ~le(row.market_iv, 0))
        squared_error == [i \in 1..Len(used) |->
                            row_squared_error(c, built.val, used[i])]
        weighted_error_sum ==
            IF \E i \in 1..Len(used) : squared_error[i] = NaN
            THEN NaN
            ELSE SumSeq([i \in 1..Len(used) |->
                           row_weight(c, used[i]) * squared_error[i]])
        weight_sum == SumSeq([i \in 1..Len(used) |-> row_weight(c, used[i])])
        valid_points == Len(used)
    IN  IF ~built.ok THEN Sentinel
        ELSE IF valid_points = 0 \/ weight_sum <= 0 THEN Sentinel
        ELSE IF weighted_error_sum = NaN THEN NaN
        ELSE Sqrt(weighted_error_sum \div weight_sum) + penalty(c, x)

\* one coordinate of expand_bounds_if_needed: the new pair and whether it moved
expand_one(bounds, param, proximity_threshold, expansion_factor) ==
    LET range == bounds[2] - bounds[1]
        lower_thresh == bounds[1] + (range * proximity_threshold) \div 100
        upper_thresh == bounds[2] - (range * proximity_threshold) \div 100
        expansion == (range * expansion_factor) \div 100
        lo == IF param <= lower_thresh THEN bounds[1] - expansion ELSE bounds[1]
        hi == IF param >= upper_thresh THEN bounds[2] + expansion ELSE bounds[2]
    IN  [pair |-> <<lo, hi>>,
         adjusted |-> (param <= lower_thresh \/ param >= upper_thresh)]

\* ModelCalibrator::expand_bounds_if_needed: the calibrator after the call and
\* the value returned
expand_bounds_if_needed(c, params, proximity_threshold, expansion_factor) ==
    LET n == IF Len(params) < Len(c.param_bounds) THEN Len(params)
             ELSE Len(c.param_bounds)
        one(i) == expand_one(c.param_bounds[i], params[i],
                             proximity_threshold, expansion_factor)
    IN  [cal |-> [c EXCEPT !.param_bounds =
                     [i \in 1..Len(c.param_bounds) |->
                        IF i <= n THEN one(i).pair ELSE c.param_bounds[i]]],
         adjusted |-> \E i \in 1..n : one(i).adjusted]

-----------------------------------------------------------------------------
(* The external optimizers (crate cmaes_lbfgsb), as far as the pipeline    *)
(* relies on them.                                                         *)

\* the points an optimizer run may end on, before projection onto its box:
\* an interior fit, a point far above the box in a, and a point far below the
\* box in a with tiny b and sigma (its wing condition fails)
Candidates ==
    { <<5, 100, -30, 0, 40>>, <<400, 100, -30, 0, 40>>, <<-400, 1, -50, 0, 1>> }

clamp(v, lo, hi) == IF v < lo THEN lo ELSE IF v > hi THEN hi ELSE v

project(x, bounds) == [i \in 1..Len(x) |-> clamp(x[i], bounds[i][1], bounds[i][2])]

\* the entries of memo for one optimizer and one pair of arguments.  The
\* objective, the seed and the rest of the configuration are the same for every
\* run of one behaviour, so the box and the start point identify a run.
Recorded(opt, bounds, start) ==
    {e \in memo : e.opt = opt /\ e.bounds = bounds /\ e.start = start}

\* a CMA-ES whose seed changes from run to run: no run repeats an earlier one
canonical_cmaes_optimize_unseeded(bounds, config, start) ==
    {[ok |-> TRUE, sol |-> project(c, bounds)] : c \in Candidates}

\* canonical_cmaes_optimize(objective, bounds, cmaes_config, start): the
\* points cmaes_result.best_solution may hold
canonical_cmaes_optimize(bounds, config, start) ==
    IF Recorded("cmaes", bounds, start) # {} /\ ~config.cmaes.parallel_eval
    THEN {e.out : e \in Recorded("cmaes", bounds, start)}
    ELSE {[ok |-> TRUE, sol |-> project(c, bounds)] : c \in Candidates}

\* lbfgsb_optimize(x0, bounds, objective, ...): Err, or Ok with a point of the
\* box (the objective it reports is the objective at that point)
lbfgsb_optimize(bounds, start) ==
    IF Recorded("lbfgsb", bounds, start) # {}
    THEN {e.out : e \in Recorded("lbfgsb", bounds, start)}
    ELSE {[ok |-> FALSE, sol |-> <<>>]}
         \cup {[ok |-> TRUE, sol |-> project(c, bounds)] : c \in Candidates}

\* an optimizer that did not run
NotRun == [ok |-> FALSE, sol |-> <<>>]

-----------------------------------------------------------------------------
(* The pipeline (src/calibration/pipeline.rs) *)

\* calibrate_model, step 1: does this call run CMA-ES (full, or mini around
\* the guess), or take the guess as it is?
runs_cmaes(config, initial_guess) ==
    ~initial_guess.some \/ config.cmaes.mini_cmaes_on_refinement

\* a CMA-ES call that is never given an initial mean
cmaes_start_none(initial_guess) == None

\* the start point handed to CMA-ES
cmaes_start(initial_guess) == initial_guess

\* calibrate_model, step 1: the incumbent (best_obj, best_sol) and the number
\* of objective evaluations the pipeline itself made; cm is the CMA-ES outcome
incumbent(c, data, config, initial_guess, cm) ==
    IF initial_guess.some
    THEN IF config.cmaes.mini_cmaes_on_refinement
         THEN [obj |-> evaluate_objective(c, cm.sol, data), sol |-> cm.sol, evals |-> 2]
         ELSE [obj |-> evaluate_objective(c, initial_guess.val, data),
               sol |-> initial_guess.val, evals |-> 1]
    ELSE [obj |-> evaluate_objective(c, cm.sol, data), sol |-> cm.sol, evals |-> 1]

\* an Err arm that hands the optimizer's error to the caller
refine_err_propagated(inc) == [ok |-> FALSE, obj |-> inc.obj, params |-> inc.sol]

\* calibrate_model, step 2, the Err arm of the match on refine_res
refine_err(inc) == [ok |-> TRUE, obj |-> inc.obj, params |-> inc.sol]

\* a refinement that also takes a point whose objective equals the incumbent's
refine_on_ties(c, data, config, inc, lb) ==
    IF config.cmaes.lbfgsb_enabled /\ lb.ok
    THEN LET loc_obj == evaluate_objective(c, lb.sol, data)
         IN  IF le(loc_obj, inc.obj)
             THEN [ok |-> TRUE, obj |-> loc_obj, params |-> lb.sol]
             ELSE [ok |-> TRUE, obj |-> inc.obj, params |-> inc.sol]
    ELSE [ok |-> TRUE, obj |-> inc.obj, params |-> inc.sol]

\* calibrate_model, step 2: what is returned, given the incumbent and the
\* L-BFGS-B outcome lb (NotRun when lbfgsb_enabled is false)
refine(c, data, config, inc, lb) ==
    IF config.cmaes.lbfgsb_enabled
    THEN IF lb.ok
         THEN LET loc_obj == evaluate_objective(c, lb.sol, data)
              IN  IF lt(loc_obj, inc.obj)
                  THEN [ok |-> TRUE, obj |-> loc_obj, params |-> lb.sol]
                  ELSE [ok |-> TRUE, obj |-> inc.obj, params |-> inc.sol]
         ELSE refine_err(inc)
    ELSE [ok |-> TRUE, obj |-> inc.obj, params |-> inc.sol]

\* the runs a calibrate_model call adds to memo
runs_made(c, config, initial_guess, cm, inc, lb) ==
    (IF runs_cmaes(config, initial_guess)
     THEN {[opt |-> "cmaes", bounds |-> c.param_bounds,
            start |-> cmaes_start(initial_guess), out |-> cm]}
     ELSE {})
    \cup
    (IF config.cmaes.lbfgsb_enabled
     THEN {[opt |-> "lbfgsb", bounds |-> c.param_bounds,
            start |-> Some(inc.sol), out |-> lb]}
     ELSE {})

\* the history of a call: counters of what ran, the box of the run that
\* produced the best point, and of the last run its steps and the outcome
\* refine_res of its L-BFGS-B call, and what each run of the adaptive loop
\* returned
NoTrace ==
    [n_eval |-> 0, n_cmaes |-> 0, n_lbfgsb |-> 0, n_expand |-> 0,
     n_moved |-> 0, lbfgsb_err |-> FALSE, best_bounds |-> <<>>, events |-> <<>>,
     refine_res |-> [ok |-> FALSE, sol |-> <<>>], runs |-> <<>>]

\* what one calibrate_model run does, in the order of its code: the CMA-ES call
\* (with its start point) when there is one, the incumbent it leaves (the
\* point and its objective), then the L-BFGS-B call (with its start point)
\* when it is enabled
run_events(config, initial_guess, inc) ==
    (IF runs_cmaes(config, initial_guess)
     THEN <<[op |-> "cmaes", at |-> cmaes_start(initial_guess), obj |-> 0]>>
     ELSE <<>>)
    \o <<[op |-> "incumbent", at |-> Some(inc.sol), obj |-> inc.obj]>>
    \o (IF config.cmaes.lbfgsb_enabled
        THEN <<[op |-> "lbfgsb", at |-> Some(inc.sol), obj |-> 0]>>
        ELSE <<>>)

traced(tr, config, initial_guess, inc, lb) ==
    [tr EXCEPT !.n_eval = @ + inc.evals,
               !.n_cmaes = @ + (IF runs_cmaes(config, initial_guess) THEN 1 ELSE 0),
               !.n_lbfgsb = @ + (IF config.cmaes.lbfgsb_enabled THEN 1 ELSE 0),
               !.lbfgsb_err = @ \/ (config.cmaes.lbfgsb_enabled /\ ~lb.ok),
               !.events = run_events(config, initial_guess, inc),
               !.refine_res = lb]

-----------------------------------------------------------------------------
(* What the callers pass *)

CustomBounds ==
    [SVIParamBounds_default EXCEPT !.a = <<-20, 20>>, !.b = <<2, 150>>]

\* a box whose first interval has its lower bound above its upper bound
InvertedBounds == [SVIParamBounds_default EXCEPT !.a = <<20, -20>>]

GuessGood == <<5, 100, -30, 0, 40>>

\* a guess with b = -1
GuessBad == <<0, -100, 0, 0, 100>>

\* AdaptiveBoundsConfig: disabled (with the default iteration cap), or enabled
\* with a cap of 0..MaxIter; the threshold and the factor are the defaults
AdaptiveBoundsConfigs ==
    [enabled : {FALSE}, max_iterations : {DefaultMaxIterations},
     proximity_threshold : {10}, expansion_factor : {25}]
    \cup
    [enabled : {TRUE}, max_iterations : 0..MaxIter,
     proximity_threshold : {10}, expansion_factor : {25}]

Configs ==
    [adaptive_bounds : AdaptiveBoundsConfigs,
     cmaes :
         [mini_cmaes_on_refinement : BOOLEAN, lbfgsb_enabled : BOOLEAN,
          parallel_eval : BOOLEAN]]

CalibrationParamsSet ==
    [param_bounds : {None, Some(CustomBounds), Some(InvertedBounds)},
     model_params : {Some(SviModelParams_default)},
     reg_lambda : {None, Some(0), Some(100), Some(-100)}]

Guesses == {None, Some(GuessGood), Some(GuessBad)}

-----------------------------------------------------------------------------
(* State *)

NoInput == [data |-> "empty", config |-> <<>>, calib_params |-> <<>>,
            initial_guess |-> None]

NoResult == [kind |-> "none", obj |-> 0, params |-> <<>>, bounds |-> <<>>]

Err == [kind |-> "err", obj |-> 0, params |-> <<>>, bounds |-> <<>>]

Ok(obj, params, bounds) ==
    [kind |-> "ok", obj |-> obj, params |-> params, bounds |-> bounds]

NoEval == [data |-> "empty", params |-> <<>>, calib_params |-> <<>>,
           of_result |-> FALSE]

NoPrev == [inp |-> NoInput, result |-> NoResult]

\* no function of the library has been called
NoCall == [fn |-> "none"]

Init ==
    /\ pc = "idle"
    /\ inp = NoInput
    /\ cal = NoCalibrator
    /\ iter = 0
    /\ stopped = FALSE
    /\ best_obj = F64Max
    /\ best_params = <<>>
    /\ result = NoResult
    /\ evalIn = NoEval
    /\ evalRes = NoResult
    /\ memo = {}
    /\ trace = NoTrace
    /\ prev = NoPrev
    /\ callKind = "first"
    /\ fnIn = NoCall
    /\ fnOut = NoCall

-----------------------------------------------------------------------------
(* calibrate_svi (src/lib.rs) *)

\* calibrate_svi up to the call of calibrate_model_adaptive: the calibrator is
\* built (or the error of SVIModelCalibrator::new is returned) and, with an
\* initial guess, the anchor and its strength are installed
calibrate_svi_enter(data, config, calib_params, initial_guess) ==
    LET made == SVIModelCalibrator_new(MarketData(data), calib_params.param_bounds,
                                       calib_params.model_params)
        lambda == IF calib_params.reg_lambda.some THEN calib_params.reg_lambda.val
                  ELSE 1
    IN  /\ inp' = [data |-> data, config |-> config, calib_params |-> calib_params,
                   initial_guess |-> initial_guess]
        /\ trace' = NoTrace
        /\ iter' = 0
        /\ stopped' = FALSE
        /\ best_obj' = F64Max
        /\ best_params' = <<>>
        /\ UNCHANGED <<evalIn, evalRes, memo, fnIn, fnOut>>
        /\ IF ~made.ok
           THEN /\ pc' = "done"
                /\ result' = Err
                /\ cal' = NoCalibrator
           ELSE /\ pc' = "run"
                /\ result' = NoResult
                /\ cal' = IF initial_guess.some
                          THEN set_temporal_reg_lambda(
                                   set_prev_solution(made.val, initial_guess.val), lambda)
                          ELSE made.val

\* a caller calls calibrate_svi with arguments of the given sets
CalibrateSvi(datas, configs, calib_param_set, guesses) ==
    /\ pc = "idle"
    /\ \E data \in datas, config \in configs, calib_params \in calib_param_set,
          initial_guess \in guesses :
         calibrate_svi_enter(data, config, calib_params, initial_guess)
    /\ UNCHANGED <<prev, callKind>>

\* calibrate_model_adaptive with adaptive_bounds.enabled = false: one
\* calibrate_model run, then calibrate_svi assembles its result.  With keep the
\* optimizer runs are recorded in memo, and a later run with the same
\* arguments repeats them; without it no run is assumed to repeat.
RunOnce(keep) ==
    /\ pc = "run"
    /\ ~inp.config.adaptive_bounds.enabled
    /\ \E cm \in (IF runs_cmaes(inp.config, inp.initial_guess)
                  THEN canonical_cmaes_optimize(cal.param_bounds, inp.config,
                                                cmaes_start(inp.initial_guess))
                  ELSE {NotRun}) :
         \E inc \in {incumbent(cal, MarketData(inp.data), inp.config,
                                inp.initial_guess, cm)} :
             \E lb \in (IF inp.config.cmaes.lbfgsb_enabled
                        THEN lbfgsb_optimize(cal.param_bounds, Some(inc.sol))
                        ELSE {NotRun}) :
               \E r \in {refine(cal, MarketData(inp.data), inp.config, inc, lb)} :
                   /\ memo' = IF keep
                              THEN memo \cup runs_made(cal, inp.config,
                                                       inp.initial_guess, cm, inc, lb)
                              ELSE memo
                   /\ trace' = [traced(trace, inp.config, inp.initial_guess, inc, lb)
                                   EXCEPT !.best_bounds = cal.param_bounds]
                   /\ result' = IF r.ok
                                THEN Ok(r.obj, r.params,
                                        SVIParamBounds_from(cal.param_bounds))
                                ELSE Err
    /\ pc' = "done"
    /\ UNCHANGED <<inp, cal, iter, stopped, best_obj, best_params, evalIn, evalRes,
                   prev, callKind,
                   fnIn, fnOut>>

\* a loop that goes on after an expansion call that moved no bound
adaptive_loop_runs_past_break(config, it, broke) ==
    it < config.adaptive_bounds.max_iterations

\* the loop of calibrate_model_adaptive enters its body: the range
\* 0..max_iterations is not exhausted and the break was not taken
adaptive_loop_runs(config, it, broke) ==
    it < config.adaptive_bounds.max_iterations /\ ~broke

\* one iteration of the loop of calibrate_model_adaptive: a calibrate_model
\* run, the update of the best pair, the expansion call and the break
AdaptiveIteration(keep) ==
    /\ pc = "run"
    /\ inp.config.adaptive_bounds.enabled
    /\ adaptive_loop_runs(inp.config, iter, stopped)
    /\ \E cm \in (IF runs_cmaes(inp.config, inp.initial_guess)
                  THEN canonical_cmaes_optimize(cal.param_bounds, inp.config,
                                                cmaes_start(inp.initial_guess))
                  ELSE {NotRun}) :
         \E inc \in {incumbent(cal, MarketData(inp.data), inp.config,
                                inp.initial_guess, cm)} :
             \E lb \in (IF inp.config.cmaes.lbfgsb_enabled
                        THEN lbfgsb_optimize(cal.param_bounds, Some(inc.sol))
                        ELSE {NotRun}) :
               \E r \in {refine(cal, MarketData(inp.data), inp.config, inc, lb)} :
               \E ex \in {expand_bounds_if_needed(
                              cal, r.params,
                              inp.config.adaptive_bounds.proximity_threshold,
                              inp.config.adaptive_bounds.expansion_factor)} :
               LET better == lt(r.obj, best_obj)
                   tr == traced(trace, inp.config, inp.initial_guess, inc, lb)
               IN  /\ memo' = IF keep
                              THEN memo \cup runs_made(cal, inp.config,
                                                       inp.initial_guess, cm, inc, lb)
                              ELSE memo
                   /\ IF r.ok
                      THEN /\ best_obj' = IF better THEN r.obj ELSE best_obj
                           /\ best_params' = IF better THEN r.params ELSE best_params
                           /\ cal' = ex.cal
                           /\ stopped' = ~ex.adjusted
                           /\ iter' = iter + 1
                           /\ trace' =
                                [tr EXCEPT
                                   !.n_expand = @ + 1,
                                   !.runs = Append(@, [obj |-> r.obj,
                                                       params |-> r.params]),
                                   !.n_moved = @ + (IF ex.adjusted THEN 1 ELSE 0),
                                   !.best_bounds = IF better THEN cal.param_bounds
                                                   ELSE @]
                           /\ pc' = "run"
                           /\ result' = result
                      ELSE /\ pc' = "done"
                           /\ result' = Err
                           /\ trace' = tr
                           /\ UNCHANGED <<best_obj, best_params, cal, stopped, iter>>
    /\ UNCHANGED <<inp, evalIn, evalRes, prev, callKind,
                   fnIn, fnOut>>

\* the end of calibrate_model_adaptive with adaptive bounds enabled, and the
\* result calibrate_svi assembles
AdaptiveReturn ==
    /\ pc = "run"
    /\ inp.config.adaptive_bounds.enabled
    /\ (iter >= inp.config.adaptive_bounds.max_iterations \/ stopped)
    /\ result' = Ok(best_obj, best_params, SVIParamBounds_from(cal.param_bounds))
    /\ pc' = "done"
    /\ UNCHANGED <<inp, cal, iter, stopped, best_obj, best_params, evalIn, evalRes,
                   memo, trace, prev, callKind,
                   fnIn, fnOut>>

-----------------------------------------------------------------------------
(* evaluate_svi (src/lib.rs) *)

\* evaluate_svi(data, params, calib_params): [kind, obj]; params is an
\* SVIParams, of which t is not read
evaluate_svi(data, params, calib_params) ==
    LET made == SVIModelCalibrator_new(data, calib_params.param_bounds,
                                       calib_params.model_params)
        p_vec == <<params.a, params.b, params.rho, params.m, params.sigma>>
    IN  IF ~made.ok THEN Err
        ELSE Ok(evaluate_objective(made.val, p_vec, data), <<>>, <<>>)

AsSVIParams(t, x) ==
    [t |-> t, a |-> x[1], b |-> x[2], rho |-> x[3], m |-> x[4], sigma |-> x[5]]

\* a caller scores some parameters on some market slice
EvaluateSvi ==
    /\ pc = "idle"
    /\ \E data \in Markets, x \in Candidates \cup {GuessBad},
          calib_params \in CalibrationParamsSet :
         /\ evalIn' = [data |-> data, params |-> x, calib_params |-> calib_params,
                       of_result |-> FALSE]
         /\ evalRes' = evaluate_svi(MarketData(data), AsSVIParams(100, x),
                                    calib_params)
    /\ pc' = "evaluated"
    /\ UNCHANGED <<inp, cal, iter, stopped, best_obj, best_params, result, memo,
                   trace, prev, callKind,
                   fnIn, fnOut>>

\* the caller of a successful calibration scores its result with the same
\* market slice and calibration parameters
EvaluateResult ==
    /\ pc = "done"
    /\ result.kind = "ok"
    /\ Len(result.params) = 5
    /\ evalIn' = [data |-> inp.data, params |-> result.params,
                  calib_params |-> inp.calib_params, of_result |-> TRUE]
    /\ evalRes' = evaluate_svi(MarketData(inp.data), AsSVIParams(100, result.params),
                               inp.calib_params)
    /\ pc' = "evaluated"
    /\ UNCHANGED <<inp, cal, iter, stopped, best_obj, best_params, result, memo,
                   trace, prev, callKind,
                   fnIn, fnOut>>

-----------------------------------------------------------------------------
(* price_with_svi (src/lib.rs) and utils::price_option (src/models/mod.rs) *)

\* the tolerance of SVISlice::total_variance on t, 5 minutes in years
\* (9.51e-6): below the scale of the model, where it is 0
FIVE_MINUTES_IN_YEARS == 0

\* str::to_lowercase on the option types the callers use
to_lowercase(option_type) ==
    CASE option_type = "Call" -> "call"
      [] option_type = "Put"  -> "put"
      [] OTHER -> option_type

\* normal_cdf of x in hundredths, in hundredths
normal_cdf(x) ==
    CASE x <= -300 -> 0
      [] x <= -200 -> 2
      [] x <= -100 -> 16
      [] x <= -50  -> 31
      [] x <= -25  -> 40
      [] x <= 0    -> 50
      [] x <= 25   -> 60
      [] x <= 50   -> 69
      [] x <= 100  -> 84
      [] x <= 200  -> 98
      [] OTHER     -> 100

FailedPrice == [ok |-> FALSE, price |-> 0, model_iv |-> 0]

\* a variance query that does not compare t with the slice's t
total_variance_any_time(params, k, t) ==
    IF ~is_finite(k) THEN [ok |-> FALSE, val |-> 0]
    ELSE LET total_var == total_variance_at_k(params, k)
         IN  IF total_var < 0 THEN [ok |-> FALSE, val |-> 0]
             ELSE [ok |-> TRUE, val |-> total_var]

\* SurfaceModel::total_variance for SVISlice: [ok, val]
total_variance(params, k, t) ==
    IF Abs(t - params.t) > FIVE_MINUTES_IN_YEARS
    THEN [ok |-> FALSE, val |-> 0]
    ELSE IF ~is_finite(k) THEN [ok |-> FALSE, val |-> 0]
    ELSE LET total_var == total_variance_at_k(params, k)
         IN  IF total_var < 0 THEN [ok |-> FALSE, val |-> 0]
             ELSE [ok |-> TRUE, val |-> total_var]

\* the first derivative of w at k, which the central difference (w_n - w_p) /
\* (2 EPSILON) of check_butterfly_arbitrage_at_k approximates
w_k(params, k) ==
    LET k_minus_m == k - params.m
        sqrt_term == Sqrt(k_minus_m * k_minus_m + params.sigma * params.sigma)
    IN  (params.b * (params.rho + (k_minus_m * 100) \div sqrt_term)) \div 100

\* the second derivative of w at k, which (w_n - 2 w + w_p) / EPSILON^2
\* approximates
w_kk(params, k) ==
    LET k_minus_m == k - params.m
        sqrt_term == Sqrt(k_minus_m * k_minus_m + params.sigma * params.sigma)
    IN  (100 * params.b * params.sigma * params.sigma)
            \div (sqrt_term * sqrt_term * sqrt_term)

\* Gatheral's g(k) of check_butterfly_arbitrage_at_k, in hundredths
g_k(params, k, w) ==
    LET term1 == 100 - (k * w_k(params, k)) \div (2 * w)
    IN  (term1 * term1) \div 100
        - (w_k(params, k) * w_k(params, k) * (400 + w)) \div (1600 * w)
        + w_kk(params, k) \div 2

\* SurfaceModel::check_butterfly_arbitrage_at_k for SVISlice: [ok,
\* variance_calls], the result and the number of total_variance calls made.
\* k - EPSILON and k + EPSILON are k at the scale of the model.
check_butterfly_arbitrage_at_k(params, k, t) ==
    IF Abs(t - params.t) > FIVE_MINUTES_IN_YEARS
    THEN [ok |-> FALSE, variance_calls |-> 0]
    ELSE IF ~is_finite(k) THEN [ok |-> FALSE, variance_calls |-> 0]
    ELSE LET w == total_variance(params, k, params.t)
         IN  IF ~w.ok THEN [ok |-> FALSE, variance_calls |-> 1]
             ELSE IF w.val <= 0 THEN [ok |-> TRUE, variance_calls |-> 3]
             ELSE [ok |-> g_k(params, k, w.val) >= 0, variance_calls |-> 3]

\* utils::black_scholes_price: [ok, price]
black_scholes_price(option_type, s, k, r, q, t, sigma) ==
    IF sigma <= 0 \/ t <= 0 THEN [ok |-> FALSE, price |-> 0]
    ELSE LET sqrt_t == Sqrt(t * 100)
             vol == (sigma * sqrt_t) \div 100
             d1 == ((Ln((s * 100) \div k)
                       + ((r - q + (sigma * sigma) \div 200) * t) \div 100) * 100)
                   \div vol
             d2 == d1 - vol
             disc_q == ExpNeg((q * t) \div 100)
             disc_r == ExpNeg((r * t) \div 100)
             ty == to_lowercase(option_type)
         IN  CASE ty = "call" ->
                    [ok |-> TRUE,
                     price |-> (((s * disc_q) \div 100) * normal_cdf(d1)) \div 100
                               - (((k * disc_r) \div 100) * normal_cdf(d2)) \div 100]
               [] ty = "put" ->
                    [ok |-> TRUE,
                     price |-> (((k * disc_r) \div 100) * normal_cdf(-d2)) \div 100
                               - (((s * disc_q) \div 100) * normal_cdf(-d1)) \div 100]
               [] OTHER -> [ok |-> FALSE, price |-> 0]

\* utils::price_option: [ok, price, model_iv]
price_option(option_type, strike, spot, r, q, t, params) ==
    LET k == log_moneyness(strike, spot)
        tv == total_variance(params, k, t)
    IN  IF ~tv.ok THEN FailedPrice
        ELSE IF tv.val <= 0 THEN FailedPrice
        ELSE LET model_iv == Sqrt((tv.val * 10000) \div t)
                 bs == black_scholes_price(option_type, spot, strike, r, q, t, model_iv)
             IN  IF bs.ok
                 THEN [ok |-> TRUE, price |-> bs.price, model_iv |-> model_iv]
                 ELSE FailedPrice

\* the PricingResult price_with_svi pushes for one row
pricing_result(params, row, fixed_params) ==
    LET res == price_option(row.option_type, row.strike_price, row.underlying_price,
                            fixed_params.r, fixed_params.q, row.years_to_exp, params)
    IN  [option_type |-> row.option_type,
         strike_price |-> row.strike_price,
         underlying_price |-> row.underlying_price,
         years_to_exp |-> row.years_to_exp,
         model_price |-> IF res.ok THEN res.price ELSE 0,
         model_iv |-> IF res.ok THEN res.model_iv ELSE 0]

\* an insertion that puts a record in front of the records of its strike
insert_by_strike_front(sorted, rec) ==
    LET n == Cardinality({i \in 1..Len(sorted) :
                             sorted[i].strike_price < rec.strike_price})
    IN  SubSeq(sorted, 1, n) \o <<rec>> \o SubSeq(sorted, n + 1, Len(sorted))

\* one step of the stable sort: rec goes behind every record whose strike is
\* not greater (partial_cmp says Less or Equal)
insert_by_strike(sorted, rec) ==
    LET n == Cardinality({i \in 1..Len(sorted) :
                             sorted[i].strike_price <= rec.strike_price})
    IN  SubSeq(sorted, 1, n) \o <<rec>> \o SubSeq(sorted, n + 1, Len(sorted))

RECURSIVE sort_by_strike(_)
\* results.sort_by(partial_cmp on strike_price): slice::sort_by is stable
sort_by_strike(results) ==
    IF results = <<>> THEN <<>>
    ELSE insert_by_strike(sort_by_strike(SubSeq(results, 1, Len(results) - 1)),
                          results[Len(results)])

price_with_svi(params, market_data, fixed_params) ==
    sort_by_strike([i \in 1..Len(market_data) |->
                      pricing_result(params, market_data[i], fixed_params)])

\* the observations a caller prices: calls and puts at three strikes, one of
\* them at another time to expiry than the slice, one of an unknown type
PricingRows ==
    { Row("call", 10000, 10000, 100, 50, 100, 1),
      Row("Put",  10000, 10000, 100, 50, 100, 1),
      Row("put",   9000, 10000, 100, 60, 100, 1),
      Row("call", 11000, 10000, 200, 60, 100, 1),
      Row("straddle", 11000, 10000, 100, 60, 100, 1) }

\* the slices priced: up to MaxRows observations in any order
PricingSlices ==
    UNION {[1..n -> PricingRows] : n \in 0..MaxRows}

\* the parameters priced with: a fit of the slice, and a struct literal whose
\* total variance is negative at every strike
PricingParams ==
    { AsSVIParams(100, <<5, 100, -30, 0, 40>>),
      AsSVIParams(100, <<-400, 1, -50, 0, 1>>) }

FixedParameters_default == [r |-> 2, q |-> 0]

PriceWithSvi ==
    /\ pc = "idle"
    /\ \E params \in PricingParams, market_data \in PricingSlices :
         /\ fnIn' = [fn |-> "price_with_svi", params |-> params,
                     market_data |-> market_data,
                     fixed_params |-> FixedParameters_default]
         /\ fnOut' = [price_with_svi |->
                       price_with_svi(params, market_data, FixedParameters_default)]
    /\ pc' = "returned"
    /\ UNCHANGED <<inp, cal, iter, stopped, best_obj, best_params, result, evalIn,
                   evalRes, memo, trace, prev, callKind>>

-----------------------------------------------------------------------------
(* ModelCalibrator::expand_bounds_if_needed called on its own *)

\* a box that pins m: both ends of its interval are 0
PinnedBounds == [SVIParamBounds_default EXCEPT !.m = <<0, 0>>]

\* the boxes of the calibrators the function is called on, as param_bounds
ExpandBoxes ==
    {<<bs.a, bs.b, bs.rho, bs.m, bs.sigma>> :
        bs \in {SVIParamBounds_default, CustomBounds, PinnedBounds}}

\* the expansion factors of the calls
ExpansionFactors == {25, 50}

\* the function is called with a point of the box, as the pipeline calls it
ExpandBoundsIfNeeded ==
    /\ pc = "idle"
    /\ \E box \in ExpandBoxes, c \in Candidates, f \in ExpansionFactors :
         \E x \in {project(c, box)} :
         \E on \in {[expiration |-> <<1, 100>>, param_bounds |-> box,
                     params |-> SviModelParams_default,
                     prev_solution |-> None, temporal_reg_lambda |-> 0]} :
            /\ fnIn' = [fn |-> "expand_bounds_if_needed", cal |-> on, params |-> x,
                        proximity_threshold |-> 10, expansion_factor |-> f]
            /\ fnOut' = [expand_bounds_if_needed |->
                          expand_bounds_if_needed(on, x, 10, f)]
    /\ pc' = "returned"
    /\ UNCHANGED <<inp, cal, iter, stopped, best_obj, best_params, result, evalIn,
                   evalRes, memo, trace, prev, callKind>>

-----------------------------------------------------------------------------
(* SVIParams::new called on its own *)

\* the arguments of the calls: admissible values, the excluded ends of each
\* range, a wing condition that holds with equality or fails, NaN and infinities
NewArgs ==
    [t : {25, 0, -10, NaN, Infinity}, a : {4, -3, -400, NaN},
     b : {20, 0, -10, Infinity}, rho : {-30, -100, 100, NaN},
     m : {0, NaN, -Infinity}, sigma : {20, 0, -10, NaN}]

SVIParamsNew ==
    /\ pc = "idle"
    /\ \E args \in NewArgs :
         /\ fnIn' = [fn |-> "SVIParams::new", args |-> args]
         /\ fnOut' = [SVIParams_new |->
                       SVIParams_new(args.t, args.a, args.b, args.rho, args.m, args.sigma)]
    /\ pc' = "returned"
    /\ UNCHANGED <<inp, cal, iter, stopped, best_obj, best_params, result, evalIn,
                   evalRes, memo, trace, prev, callKind>>

-----------------------------------------------------------------------------
(* Evaluations of one population run at once (parallel_eval = true): the   *)
(* optimizer calls evaluate_objective from several threads, each call with *)
(* &self, the shared market slice and its own candidate.                   *)

\* a population holds NumWorkers candidates, one evaluation each
NumWorkers == 2

Workers == 1..NumWorkers

\* the frame of a call that has not started
NewFrame ==
    [at |-> "new", row |-> 1, params |-> <<>>, weighted_error_sum |-> 0,
     weight_sum |-> 0, valid_points |-> 0, ret |-> 0]

\* sums that every evaluation keeps in the frame of the first
shared_sums(frames, w) == frames[1]

\* the sums of an evaluation are locals of its own call
local_sums(frames, w) == frames[w]

\* the calibrators evaluated on: the default box, an anchor, with and without
\* regularisation
ParCalibrators ==
    {[expiration |-> <<1, 100>>,
      param_bounds |-> <<SVIParamBounds_default.a, SVIParamBounds_default.b,
                         SVIParamBounds_default.rho, SVIParamBounds_default.m,
                         SVIParamBounds_default.sigma>>,
      params |-> SviModelParams_default,
      prev_solution |-> Some(GuessGood),
      temporal_reg_lambda |-> lambda] : lambda \in {0, 100}}

\* the optimizer hands a population to its threads
EvaluatePopulation ==
    /\ pc = "idle"
    /\ \E on \in ParCalibrators, data \in {"single", "nan"},
          pop \in [Workers -> Candidates \cup {GuessBad}] :
         fnIn' = [fn |-> "evaluate_population", cal |-> on, data |-> data,
                  pop |-> pop]
    /\ fnOut' = [frames |-> [w \in Workers |-> NewFrame]]
    /\ pc' = "evaluating"
    /\ UNCHANGED <<inp, cal, iter, stopped, best_obj, best_params, result, evalIn,
                   evalRes, memo, trace, prev, callKind>>

\* evaluate_objective, step 1: the slice is built or the call returns 1e12
EvalBuild(w) ==
    /\ pc = "evaluating"
    /\ fnOut.frames[w].at = "new"
    /\ LET x == fnIn.pop[w]
           built == SVIParams_new(fnIn.cal.expiration[2], x[1], x[2], x[3], x[4], x[5])
       IN  fnOut' = [fnOut EXCEPT !.frames[w] =
                        IF built.ok
                        THEN [@ EXCEPT !.at = "rows", !.params = built.val]
                        ELSE [@ EXCEPT !.at = "done", !.ret = Sentinel]]
    /\ UNCHANGED <<pc, fnIn, inp, cal, iter, stopped, best_obj, best_params, result,
                   evalIn, evalRes, memo, trace, prev, callKind>>

\* evaluate_objective, step 2: one pass of the loop over the rows
EvalRow(w) ==
    /\ pc = "evaluating"
    /\ fnOut.frames[w].at = "rows"
    /\ fnOut.frames[w].row <= Len(MarketData(fnIn.data))
    /\ LET row == MarketData(fnIn.data)[fnOut.frames[w].row]
           sums == local_sums(fnOut.frames, w)
           squared_error == row_squared_error(fnIn.cal, fnOut.frames[w].params, row)
           weight == row_weight(fnIn.cal, row)
       IN  fnOut' = [fnOut EXCEPT !.frames[w] =
                        IF row.expiration # fnIn.cal.expiration[1]
                           \/ le(row.market_iv, 0)
                        THEN [@ EXCEPT !.row = @ + 1]
                        ELSE [@ EXCEPT
                                !.row = @ + 1,
                                !.weighted_error_sum =
                                    IF sums.weighted_error_sum = NaN
                                       \/ squared_error = NaN
                                    THEN NaN
                                    ELSE sums.weighted_error_sum
                                         + weight * squared_error,
                                !.weight_sum = sums.weight_sum + weight,
                                !.valid_points = sums.valid_points + 1]]
    /\ UNCHANGED <<pc, fnIn, inp, cal, iter, stopped, best_obj, best_params, result,
                   evalIn, evalRes, memo, trace, prev, callKind>>

\* evaluate_objective, step 3: the fail-safe, the root and the penalty
EvalReturn(w) ==
    /\ pc = "evaluating"
    /\ fnOut.frames[w].at = "rows"
    /\ fnOut.frames[w].row > Len(MarketData(fnIn.data))
    /\ LET sums == local_sums(fnOut.frames, w)
           obj == IF sums.valid_points = 0 \/ sums.weight_sum <= 0 THEN Sentinel
                  ELSE IF sums.weighted_error_sum = NaN THEN NaN
                  ELSE Sqrt(sums.weighted_error_sum \div sums.weight_sum)
                       + penalty(fnIn.cal, fnIn.pop[w])
       IN  fnOut' = [fnOut EXCEPT !.frames[w] = [@ EXCEPT !.at = "done", !.ret = obj]]
    /\ UNCHANGED <<pc, fnIn, inp, cal, iter, stopped, best_obj, best_params, result,
                   evalIn, evalRes, memo, trace, prev, callKind>>

\* the optimizer has the value of every candidate of the population
PopulationEvaluated ==
    /\ pc = "evaluating"
    /\ \A w \in Workers : fnOut.frames[w].at = "done"
    /\ pc' = "returned"
    /\ UNCHANGED <<fnIn, fnOut, inp, cal, iter, stopped, best_obj, best_params,
                   result, evalIn, evalRes, memo, trace, prev, callKind>>

-----------------------------------------------------------------------------
(* build_fixed_time_metrics (src/models/linear_iv/temporal.rs).  Times are  *)
(* in days (1/365 year), so the target time of a fixed day is the day; ATM *)
(* volatilities are in hundredths, total variances in 1e-4 day.  The delta *)
(* metrics of an entry are left out: they never decide whether it exists.  *)

\* the tolerance of the range checks, 1e-8 year: below the scale of the model
TEMPORAL_EPSILON == 0

RECURSIVE SortedSeq(_)
\* a set of numbers as an ascending sequence
SortedSeq(S) ==
    IF S = {} THEN <<>>
    ELSE LET least == CHOOSE x \in S : \A y \in S : x <= y
         IN  <<least>> \o SortedSeq(S \ {least})

\* group_by_tte: the maturities in ascending order, each with its rows
group_by_tte(data) ==
    LET ttes == SortedSeq({data[i].years_to_exp : i \in 1..Len(data)})
    IN  [g \in 1..Len(ttes) |->
            <<ttes[g], SelectSeq(data, LAMBDA row : row.years_to_exp = ttes[g])>>]

\* compute_atm_iv: [ok, atm_iv].  Every chain of the model quotes the forward
\* strike, where linear_interp returns the total variance of that quote.
compute_atm_iv(points, forward, tte) ==
    LET quoted == SelectSeq(points, LAMBDA row : ~(row.market_iv <= 0))
        atm == SelectSeq(quoted, LAMBDA row : row.strike_price = forward)
        omega_atm == atm[1].market_iv * atm[1].market_iv * tte
    IN  IF tte <= 0 THEN [ok |-> FALSE, atm_iv |-> 0]
        ELSE IF Len(quoted) < 2 \/ atm = <<>> THEN [ok |-> FALSE, atm_iv |-> 0]
        ELSE IF omega_atm <= 0 THEN [ok |-> FALSE, atm_iv |-> 0]
        ELSE [ok |-> TRUE, atm_iv |-> Sqrt(omega_atm \div tte)]

\* a build_linear_iv that takes any number of observations
build_linear_iv_any_count(points, forward, tte, config) ==
    compute_atm_iv(points, forward, tte)

\* build_linear_iv, as far as build_fixed_time_metrics reads it: [ok, atm_iv]
build_linear_iv(points, forward, tte, config) ==
    IF Len(points) < config.min_points THEN [ok |-> FALSE, atm_iv |-> 0]
    ELSE compute_atm_iv(points, forward, tte)

\* temporal_interp on sorted (tte, value) pairs: Some(value) or None
temporal_interp(tte_metrics, target_tte, allow_short_extrap, allow_long_extrap) ==
    LET n == Len(tte_metrics)
        min_tte == tte_metrics[1][1]
        max_tte == tte_metrics[n][1]
        line(i, j) ==
            tte_metrics[i][2]
            + ((tte_metrics[j][2] - tte_metrics[i][2]) * (target_tte - tte_metrics[i][1]))
              \div (tte_metrics[j][1] - tte_metrics[i][1])
    IN  IF n = 0 THEN None
        ELSE IF n = 1 THEN Some(tte_metrics[1][2])
        ELSE IF target_tte - min_tte < -TEMPORAL_EPSILON /\ ~allow_short_extrap
        THEN None
        ELSE IF target_tte - max_tte > TEMPORAL_EPSILON /\ ~allow_long_extrap
        THEN None
        ELSE IF target_tte <= min_tte
        THEN (IF target_tte = min_tte THEN Some(tte_metrics[1][2])
              ELSE Some(line(1, 2)))
        ELSE IF target_tte >= max_tte
        THEN (IF target_tte = max_tte THEN Some(tte_metrics[n][2])
              ELSE Some(tte_metrics[n][2]
                        + ((tte_metrics[n][2] - tte_metrics[n - 1][2])
                           * (target_tte - max_tte))
                          \div (max_tte - tte_metrics[n - 1][1])))
        ELSE LET i == CHOOSE i \in 1..(n - 1) :
                        /\ target_tte >= tte_metrics[i][1]
                        /\ target_tte <= tte_metrics[i + 1][1]
                        /\ \A j \in 1..(i - 1) :
                              ~(target_tte >= tte_metrics[j][1]
                                /\ target_tte <= tte_metrics[j + 1][1])
             IN  Some(line(i, i + 1))

\* interpolate_metric_value for the ATM volatility: Some(iv) or None
interpolate_metric_value(metric_pairs, target_tte, method, allow_short_extrap, allow_long_extrap) ==
    CASE method = "LinearTte" ->
           temporal_interp(metric_pairs, target_tte,
                           allow_short_extrap, allow_long_extrap)
      [] method = "LinearVariance" ->
           LET variance_pairs ==
                   [i \in 1..Len(metric_pairs) |->
                       <<metric_pairs[i][1],
                         metric_pairs[i][2] * metric_pairs[i][2] * metric_pairs[i][1]>>]
               interpolated_variance ==
                   temporal_interp(variance_pairs, target_tte,
                                   allow_short_extrap, allow_long_extrap)
           IN  IF ~interpolated_variance.some THEN None
               ELSE IF interpolated_variance.val <= 0 THEN None
               ELSE Some(Sqrt(interpolated_variance.val \div target_tte))
      [] method = "SquareRootTime" ->
           LET positive == SelectSeq(metric_pairs, LAMBDA pair : pair[1] > 0)
               scaled_pairs ==
                   [i \in 1..Len(positive) |->
                       <<positive[i][1],
                         (positive[i][2] * 10000) \div Sqrt(positive[i][1] * 10000)>>]
               scaled_value ==
                   temporal_interp(scaled_pairs, target_tte,
                                   allow_short_extrap, allow_long_extrap)
           IN  IF target_tte <= 0 THEN None
               ELSE IF scaled_pairs = <<>> THEN None
               ELSE IF ~scaled_value.some THEN None
               ELSE Some((scaled_value.val * Sqrt(target_tte * 10000)) \div 10000)

\* one step of results.sort_by_key(|m| m.tte_days), a stable sort
insert_by_tte_days(sorted, entry) ==
    LET n == Cardinality({i \in 1..Len(sorted) : sorted[i].tte_days <= entry.tte_days})
    IN  SubSeq(sorted, 1, n) \o <<entry>> \o SubSeq(sorted, n + 1, Len(sorted))

RECURSIVE sort_by_tte_days(_)
sort_by_tte_days(results) ==
    IF results = <<>> THEN <<>>
    ELSE insert_by_tte_days(sort_by_tte_days(SubSeq(results, 1, Len(results) - 1)),
                            results[Len(results)])

\* the loop body of build_fixed_time_metrics for one fixed day: the entries it
\* pushes, none or one
fixed_day_entry(maturity_outputs, fixed_days, temp_config) ==
    LET target_tte == fixed_days
        min_tte == maturity_outputs[1][1]
        max_tte == maturity_outputs[Len(maturity_outputs)][1]
        atm_iv == interpolate_metric_value(maturity_outputs, target_tte,
                                           temp_config.interp_method,
                                           temp_config.allow_short_extrapolate,
                                           temp_config.allow_long_extrapolate)
    IN  IF target_tte - min_tte < -TEMPORAL_EPSILON
           /\ ~temp_config.allow_short_extrapolate
        THEN <<>>
        ELSE IF target_tte - max_tte > TEMPORAL_EPSILON
                /\ ~temp_config.allow_long_extrapolate
        THEN <<>>
        ELSE IF atm_iv.some /\ atm_iv.val > 0
        THEN <<[tte_days |-> fixed_days, tte_years |-> target_tte,
                atm_iv |-> atm_iv.val]>>
        ELSE <<>>

RECURSIVE Flatten(_)
Flatten(ss) == IF ss = <<>> THEN <<>> ELSE Head(ss) \o Flatten(Tail(ss))

\* build_fixed_time_metrics: [ok, val]
build_fixed_time_metrics(data, forward, temp_config, strike_config) ==
    LET tte_groups == group_by_tte(data)
        built == [g \in 1..Len(tte_groups) |->
                     build_linear_iv(tte_groups[g][2], forward, tte_groups[g][1],
                                     strike_config)]
        maturity_outputs ==
            [g \in 1..Len(tte_groups) |-> <<tte_groups[g][1], built[g].atm_iv>>]
    IN  IF data = <<>> THEN [ok |-> FALSE, val |-> <<>>]
        ELSE IF Len(tte_groups) < temp_config.min_maturities
        THEN [ok |-> FALSE, val |-> <<>>]
        ELSE IF \E g \in 1..Len(tte_groups) : ~built[g].ok
        THEN [ok |-> FALSE, val |-> <<>>]
        ELSE [ok |-> TRUE,
              val |-> sort_by_tte_days(Flatten(
                          [d \in 1..Len(temp_config.fixed_days) |->
                              fixed_day_entry(maturity_outputs,
                                              temp_config.fixed_days[d],
                                              temp_config)]))]

\* the quotes of one maturity: a put below, a call at and a call above the
\* forward; years_to_exp is in days here
Chain(days, atm_iv) ==
    << Row("put",   9500, 10000, days, atm_iv + 2, 100, days),
       Row("call", 10000, 10000, days, atm_iv,     100, days),
       Row("call", 10500, 10000, days, atm_iv + 1, 100, days) >>

\* the option chains of the calls: the one of test_temporal_extrapolation
\* (25% at 7 days, 20% at 14 days), a chain that rises with maturity, one given
\* longest maturity first, one of three maturities, one of a single maturity,
\* one whose second maturity has two quotes, and none
TemporalData ==
    { Chain(7, 25) \o Chain(14, 20),
      Chain(7, 20) \o Chain(14, 25),
      Chain(14, 20) \o Chain(7, 25),
      Chain(7, 25) \o Chain(14, 20) \o Chain(30, 22),
      Chain(7, 25),
      Chain(7, 25) \o SubSeq(Chain(14, 20), 1, 2),
      <<>> }

TemporalConfigs ==
    [fixed_days : {<<1, 7, 14, 21>>, <<21, 10, 1>>, <<1, 3, 7, 14, 30>>, <<>>},
     interp_method : {"LinearTte", "LinearVariance", "SquareRootTime"},
     allow_short_extrapolate : BOOLEAN, allow_long_extrapolate : BOOLEAN,
     min_maturities : {1, 2}]

LinearIvConfig_default == [min_points |-> 3]

BuildFixedTimeMetrics ==
    /\ pc = "idle"
    /\ \E data \in TemporalData, temp_config \in TemporalConfigs :
         /\ fnIn' = [fn |-> "build_fixed_time_metrics", data |-> data,
                     forward |-> 10000, temp_config |-> temp_config,
                     strike_config |-> LinearIvConfig_default]
         /\ fnOut' = [build_fixed_time_metrics |->
                       build_fixed_time_metrics(data, 10000, temp_config,
                                                LinearIvConfig_default)]
    /\ pc' = "returned"
    /\ UNCHANGED <<inp, cal, iter, stopped, best_obj, best_params, result, evalIn,
                   evalRes, memo, trace, prev, callKind>>

-----------------------------------------------------------------------------
(* build_linear_iv called on its own *)

\* the observations of the calls: a chain, its first two quotes, and none
LinearIvPoints == {Chain(7, 25), SubSeq(Chain(7, 25), 1, 2), <<>>}

\* the times to expiry of the calls, in days
LinearIvTtes == {7, 0, -1}

LinearIvConfigs == [min_points : {2, 3}]

BuildLinearIv ==
    /\ pc = "idle"
    /\ \E points \in LinearIvPoints, tte \in LinearIvTtes, config \in LinearIvConfigs :
         /\ fnIn' = [fn |-> "build_linear_iv", points |-> points,
                     forward |-> 10000, tte |-> tte, config |-> config]
         /\ fnOut' = [build_linear_iv |-> build_linear_iv(points, 10000, tte, config)]
    /\ pc' = "returned"
    /\ UNCHANGED <<inp, cal, iter, stopped, best_obj, best_params, result, evalIn,
                   evalRes, memo, trace, prev, callKind>>

-----------------------------------------------------------------------------
(* evaluate_objective called on a calibrator a caller has set up *)

\* SviModelParams: the default, no vega weighting, and a boost of 100
ObjectiveModelParams ==
    { SviModelParams_default,
      [atm_boost_factor |-> 2500, use_vega_weighting |-> FALSE],
      [atm_boost_factor |-> 10000, use_vega_weighting |-> TRUE] }

\* the vectors handed to set_prev_solution, in the order of the calls
AnchorCalls ==
    { <<>>, <<GuessGood>>, <<<<0, 0, 0, 0>>>>, <<GuessGood, <<0, 0, 0, 0>>>>,
      <<GuessGood, <<0, 100, -30, 0, 40>>>> }

RECURSIVE anchored(_, _)
\* the calibrator after the set_prev_solution calls
anchored(c, calls) ==
    IF calls = <<>> THEN c
    ELSE anchored(set_prev_solution(c, Head(calls)), Tail(calls))

ObjectiveMarkets == {"single", "zero_iv", "nan_only", "far"}

ObjectivePoints == Candidates \cup {GuessBad, <<50, 100, -30, 0, 40>>}

EvaluateObjective ==
    /\ pc = "idle"
    /\ \E model_params \in ObjectiveModelParams, calls \in AnchorCalls,
          lambda \in {0, 100}, x \in ObjectivePoints, data \in ObjectiveMarkets :
         \E made \in {SVIModelCalibrator_new(MarketData("single"), None,
                                             Some(model_params)).val} :
         \E c \in {set_temporal_reg_lambda(anchored(made, calls), lambda)} :
           /\ fnIn' = [fn |-> "evaluate_objective", model_params |-> model_params,
                       anchors |-> calls, lambda |-> lambda, x |-> x,
                       market |-> data, calibrator |-> c]
           /\ fnOut' = [evaluate_objective |->
                          evaluate_objective(c, x, MarketData(data))]
    /\ pc' = "returned"
    /\ UNCHANGED <<inp, cal, iter, stopped, best_obj, best_params, result, evalIn,
                   evalRes, memo, trace, prev, callKind>>

-----------------------------------------------------------------------------
(* Queries on a slice *)

\* the slices queried: an admissible one, one whose variance is negative near
\* the money, and one with a steep put wing
QuerySlices ==
    PricingParams \cup {AsSVIParams(100, <<0, 200, -99, 0, 1>>)}

\* log-moneyness of the queries
QueryKs == {-36, -11, 0, 10, NaN, Infinity}

\* time of the queries: the slice's, a hundredth of a year off, and zero
QueryTs == {100, 101, 99, 0}

TotalVariance ==
    /\ pc = "idle"
    /\ \E params \in QuerySlices, k \in QueryKs, t \in QueryTs :
         /\ fnIn' = [fn |-> "total_variance", slice |-> params, k |-> k, t |-> t]
         /\ fnOut' = [total_variance |-> total_variance(params, k, t)]
    /\ pc' = "returned"
    /\ UNCHANGED <<inp, cal, iter, stopped, best_obj, best_params, result, evalIn,
                   evalRes, memo, trace, prev, callKind>>

CheckButterflyArbitrageAtK ==
    /\ pc = "idle"
    /\ \E params \in QuerySlices, k \in QueryKs, t \in QueryTs :
         /\ fnIn' = [fn |-> "check_butterfly_arbitrage_at_k", slice |-> params,
                     at_k |-> k, t |-> t]
         /\ fnOut' = [check_butterfly_arbitrage_at_k |->
                        check_butterfly_arbitrage_at_k(params, k, t)]
    /\ pc' = "returned"
    /\ UNCHANGED <<inp, cal, iter, stopped, best_obj, best_params, result, evalIn,
                   evalRes, memo, trace, prev, callKind>>

-----------------------------------------------------------------------------
(* Specifications *)

Next ==
    \/ CalibrateSvi(Markets, Configs, CalibrationParamsSet, Guesses)
    \/ RunOnce(FALSE)
    \/ AdaptiveIteration(FALSE)
    \/ AdaptiveReturn
    \/ EvaluateSvi
    \/ EvaluateResult

Spec == Init /\ [][Next]_vars

-----------------------------------------------------------------------------
(* A caller that calibrates with adaptive bounds, and the pipeline going on *)
(* to its end                                                               *)

\* the configurations with adaptive bounds enabled: a cap of 0..MaxIter or the
\* default cap, the default threshold, and the default factor or a factor of
\* 0.05
AdaptiveConfigs ==
    [adaptive_bounds :
         [enabled : {TRUE}, max_iterations : 0..MaxIter \cup {DefaultMaxIterations},
          proximity_threshold : {10}, expansion_factor : {25, 5}],
     cmaes :
         [mini_cmaes_on_refinement : {TRUE}, lbfgsb_enabled : BOOLEAN,
          parallel_eval : {FALSE}]]

AdaptiveCalibrationParams ==
    [param_bounds : {None, Some(CustomBounds)},
     model_params : {Some(SviModelParams_default)},
     reg_lambda : {None}]

NextRuns ==
    \/ CalibrateSvi({"single", "high"}, AdaptiveConfigs, AdaptiveCalibrationParams,
                    {None, Some(GuessGood)})
    \/ AdaptiveIteration(FALSE)
    \/ AdaptiveReturn

\* calibrate_svi is sequential code: once it is called, each step of the
\* pipeline is taken, every optimizer run being assumed to return.  This is
\* weak fairness of the two steps; for AdaptiveIteration it is written out,
\* []<>(not enabled) \/ []<>(step taken), with the guard of the action as its
\* enabling condition (the optimizers always have an outcome).
SpecRuns ==
    /\ Init /\ [][NextRuns]_vars
    /\ WF_vars(AdaptiveReturn)
    /\ \/ []<>(~(/\ pc = "run"
                  /\ inp.config.adaptive_bounds.enabled
                  /\ adaptive_loop_runs(inp.config, iter, stopped)))
       \/ []<><<AdaptiveIteration(FALSE)>>_vars

-----------------------------------------------------------------------------
(* A caller that calibrates twice: the second call repeats the first, with *)
(* the same arguments (CallAgain) or with the bounds the first call        *)
(* returned as its param_bounds (CallWithReturnedBounds).  memo is kept:   *)
(* the optimizers are the same functions in both calls.                    *)

CallAgain ==
    /\ pc = "done"
    /\ callKind = "first"
    /\ prev' = [inp |-> inp, result |-> result]
    /\ callKind' = "same"
    /\ calibrate_svi_enter(inp.data, inp.config, inp.calib_params, inp.initial_guess)

CallWithReturnedBounds ==
    /\ pc = "done"
    /\ callKind = "first"
    /\ result.kind = "ok"
    /\ prev' = [inp |-> inp, result |-> result]
    /\ callKind' = "roundtrip"
    /\ calibrate_svi_enter(inp.data, inp.config,
                           [inp.calib_params EXCEPT !.param_bounds = Some(result.bounds)],
                           inp.initial_guess)

\* the first call of such a caller: a single-expiry slice, custom bounds, with
\* or without a warm start
RepeatCalibrationParams ==
    [param_bounds : {Some(CustomBounds)},
     model_params : {Some(SviModelParams_default)},
     reg_lambda : {None}]

\* the configurations of such a caller: parallel evaluation is exercised on
\* single runs (adaptive bounds disabled), the adaptive loop with
\* parallel_eval = false
RepeatConfigs ==
    {c \in Configs : c.cmaes.parallel_eval => ~c.adaptive_bounds.enabled}

NextRepeat ==
    \/ CalibrateSvi({"single"}, RepeatConfigs, RepeatCalibrationParams,
                    {None, Some(GuessGood)})
    \/ RunOnce(TRUE)
    \/ AdaptiveIteration(TRUE)
    \/ AdaptiveReturn
    \/ CallAgain
    \/ CallWithReturnedBounds

SpecRepeat == Init /\ [][NextRepeat]_vars

-----------------------------------------------------------------------------
(* A caller of the functions of the library that are not part of a         *)
(* calibration: each behaviour is one call.                                *)

NextFn ==
    \/ PriceWithSvi
    \/ ExpandBoundsIfNeeded
    \/ SVIParamsNew
    \/ EvaluatePopulation
    \/ \E w \in Workers : EvalBuild(w)
    \/ \E w \in Workers : EvalRow(w)
    \/ \E w \in Workers : EvalReturn(w)
    \/ PopulationEvaluated
    \/ BuildFixedTimeMetrics
    \/ BuildLinearIv
    \/ EvaluateObjective
    \/ TotalVariance
    \/ CheckButterflyArbitrageAtK

SpecFn == Init /\ [][NextFn]_vars

-----------------------------------------------------------------------------
(* Properties *)

\* C1: a market slice that does not hold exactly one distinct expiration tag
\* (two or more tags, or no row) is refused by calibrate_svi and by
\* evaluate_svi, and the refused call evaluates no objective and runs no
\* optimizer: it never enters the pipeline and its history stays empty.
C1_OneExpirationOrError ==
    /\ pc = "run" => Cardinality(grouped(MarketData(inp.data))) = 1
    /\ (pc = "done" /\ Cardinality(grouped(MarketData(inp.data))) # 1)
          => (result = Err /\ trace = NoTrace)
    /\ (pc = "evaluated" /\ Cardinality(grouped(MarketData(evalIn.data))) # 1)
          => evalRes = Err

\* a calibrate_svi call on the slice with two expiration tags has returned
C1_MixedSliceRefused ==
    /\ pc = "done"
    /\ inp.data = "mixed"
    /\ result = Err
    /\ trace.n_eval = 0 /\ trace.n_cmaes = 0 /\ trace.n_lbfgsb = 0

\* C2: every Ok result of calibrate_svi carries parameters (a, b, rho, m,
\* sigma) with b > 0, -1 < rho < 1, sigma > 0 and
\* a + b * sigma * sqrt(1 - rho^2) >= 0 (the tolerance 1e-6 is below the scale).
C2_ResultAdmissible ==
    (pc = "done" /\ result.kind = "ok" /\ Len(result.params) = 5) =>
        LET x == result.params
        IN  /\ x[2] > 0
            /\ x[3] > -100 /\ x[3] < 100
            /\ x[5] > 0
            /\ x[1] + (x[2] * x[5] * Sqrt(10000 - x[3] * x[3])) \div 10000 >= 0

\* C3: every Ok result of calibrate_svi carries exactly 5 parameters and an
\* objective that is finite (below the stand-in of f64::MAX, itself finite) and
\* not negative, whatever the adaptive-bounds settings.
C3_ResultShape ==
    (pc = "done" /\ result.kind = "ok") =>
        /\ Len(result.params) = 5
        /\ result.obj >= 0
        /\ result.obj <= F64Max

\* C4 as stated: a second call with the bounds the first call returned gives
\* back those bounds, for every successful first call.
C4_RoundTripAlways ==
    (callKind = "roundtrip" /\ pc = "done" /\ result.kind = "ok")
        => result.bounds = prev.result.bounds

\* C4: a second call with the bounds the first call returned gives back those
\* bounds in each coordinate whenever the second call moves no bound, which is
\* every second call with adaptive bounds disabled.
C4_RoundTripUnlessExpanded ==
    /\ (callKind = "roundtrip" /\ pc = "done" /\ result.kind = "ok"
           /\ trace.n_moved = 0)
          => (\A f \in {"a", "b", "rho", "m", "sigma"} :
                 result.bounds[f] = prev.result.bounds[f])
    /\ (pc \in {"run", "done"} /\ ~inp.config.adaptive_bounds.enabled)
          => trace.n_moved = 0

\* the first call expanded its box, the second started from the expanded box
\* and moved nothing
C4_ExpandedBoxFedBack ==
    /\ callKind = "roundtrip"
    /\ pc = "done"
    /\ result.kind = "ok"
    /\ trace.n_moved = 0
    /\ trace.n_cmaes + trace.n_lbfgsb > 0
    /\ prev.result.bounds # CustomBounds

\* C5: with adaptive_bounds.enabled = false the bounds returned are the
\* supplied param_bounds (SVIParamBounds::default() when none is supplied),
\* the calibrator's bounds are unchanged through the run and
\* expand_bounds_if_needed is never called.
C5_DisabledKeepsBounds ==
    (pc \in {"run", "done"} /\ ~inp.config.adaptive_bounds.enabled) =>
        LET supplied == IF inp.calib_params.param_bounds.some
                        THEN inp.calib_params.param_bounds.val
                        ELSE SVIParamBounds_default
        IN  /\ trace.n_expand = 0
            /\ cal.param_bounds # <<>> =>
                  cal.param_bounds = <<supplied.a, supplied.b, supplied.rho,
                                       supplied.m, supplied.sigma>>
            /\ (pc = "done" /\ result.kind = "ok") => result.bounds = supplied

\* a call with custom bounds and adaptive bounds disabled has run both
\* optimizers and returned
C5_CustomBoxReturned ==
    /\ pc = "done"
    /\ result.kind = "ok"
    /\ ~inp.config.adaptive_bounds.enabled
    /\ inp.calib_params.param_bounds = Some(CustomBounds)
    /\ trace.n_cmaes > 0 /\ trace.n_lbfgsb > 0

\* C6: across the iterations of calibrate_model_adaptive (every call of
\* expand_bounds_if_needed) no lower bound increases and no upper bound
\* decreases, in each of the five coordinates.
C6_BoundsOnlyWiden ==
    [][ (pc = "run" /\ pc' = "run") =>
            \A i \in 1..5 :
                /\ cal'.param_bounds[i][1] <= cal.param_bounds[i][1]
                /\ cal'.param_bounds[i][2] >= cal.param_bounds[i][2] ]_vars

\* C7: evaluate_svi on the market slice, the parameters and the calibration
\* parameters of a calibrate_svi result returns the objective of that result,
\* for every initial guess and every reg_lambda, when no adaptive iteration
\* followed the scoring of the incumbent (adaptive bounds disabled, or the
\* loop ended on its first iteration).
C7_EvaluateMatchesResult ==
    (/\ pc = "evaluated"
     /\ evalIn.of_result
     /\ (~inp.config.adaptive_bounds.enabled \/ iter = 1))
        => (evalRes.kind = "ok" /\ evalRes.obj = result.obj)

C9_ReturnedBoundsAreRunBounds ==
    (pc = "done" /\ result.kind = "ok" /\ Len(result.params) = 5)
        => result.bounds = SVIParamBounds_from(trace.best_bounds)

C11_WarmStartHandling ==
    (pc \in {"run", "done"} /\ trace.events # <<>>) =>
        LET guess == inp.initial_guess
            mini == inp.config.cmaes.mini_cmaes_on_refinement
            Events(op) == SelectSeq(trace.events, LAMBDA e : e.op = op)
            cm == Events("cmaes")
            inc == Events("incumbent")
            lb == Events("lbfgsb")
            last == trace.events[Len(trace.events)]
        IN  /\ Len(inc) = 1
            /\ (guess.some /\ mini) => (Len(cm) = 1 /\ cm[1].at = guess)
            /\ (guess.some /\ ~mini) =>
                  /\ cm = <<>>
                  /\ inc[1].at = guess
                  /\ inc[1].obj = evaluate_objective(cal, guess.val, MarketData(inp.data))
            /\ ~guess.some => (Len(cm) = 1 /\ cm[1].at = None)
            /\ Len(lb) = (IF inp.config.cmaes.lbfgsb_enabled THEN 1 ELSE 0)
            /\ lb # <<>> => (last = lb[1] /\ lb[1].at = inc[1].at)

\* a run with a guess and mini CMA-ES on has called CMA-ES, then L-BFGS-B
C11_MiniThenLbfgsb ==
    /\ pc = "done"
    /\ inp.initial_guess = Some(GuessGood)
    /\ inp.config.cmaes.mini_cmaes_on_refinement
    /\ Len(trace.events) = 3
    /\ trace.events[1].op = "cmaes"
    /\ trace.events[3].op = "lbfgsb"

\* C12: in a calibrate_svi call with an initial guess the calibrator is
\* anchored to the guess with strength reg_lambda when it is given (a negative
\* value counting as 0) and 1e-2 when it is not; with no initial guess no
\* anchor is installed and the regularisation term is 0 at every point.
C12_AnchorAndStrength ==
    (pc \in {"run", "done"} /\ Len(cal.param_bounds) = 5) =>
        LET reg == inp.calib_params.reg_lambda
        IN  IF inp.initial_guess.some
            THEN /\ cal.prev_solution = inp.initial_guess
                 /\ cal.temporal_reg_lambda =
                        (IF reg.some THEN (IF reg.val > 0 THEN reg.val ELSE 0) ELSE 1)
                 /\ (reg.some /\ reg.val <= 0) =>
                        \A x \in Candidates : penalty(cal, x) = 0
            ELSE /\ cal.prev_solution = None
                 /\ \A x \in Candidates \cup {GuessBad} : penalty(cal, x) = 0

\* a call with a guess and no reg_lambda has returned a point away from the
\* guess, whose objective carries the default-strength penalty
C12_DefaultStrengthApplied ==
    /\ pc = "done"
    /\ result.kind = "ok"
    /\ inp.initial_guess.some
    /\ ~inp.calib_params.reg_lambda.some
    /\ cal.temporal_reg_lambda = 1
    /\ Len(result.params) = 5
    /\ penalty(cal, result.params) > 0

\* C13: a calibrate_svi call whose param_bounds hold an inverted interval
\* (lower bound above upper bound) in some coordinate returns an error, and no
\* optimizer has run.
C13_InvertedBoundsRejected ==
    (/\ pc = "done"
     /\ inp.calib_params.param_bounds.some
     /\ \E f \in {"a", "b", "rho", "m", "sigma"} :
           inp.calib_params.param_bounds.val[f][1]
               > inp.calib_params.param_bounds.val[f][2])
        => (result = Err /\ trace.n_cmaes = 0 /\ trace.n_lbfgsb = 0)

\* C14: a calibrate_svi call on a market slice with a NaN field in some
\* observation returns an error, and no optimizer has run.
C14_NaNSliceRejected ==
    (/\ pc = "done"
     /\ \E i \in 1..Len(MarketData(inp.data)) :
           \/ MarketData(inp.data)[i].strike_price = NaN
           \/ MarketData(inp.data)[i].underlying_price = NaN
           \/ MarketData(inp.data)[i].years_to_exp = NaN
           \/ MarketData(inp.data)[i].market_iv = NaN
           \/ MarketData(inp.data)[i].vega = NaN)
        => (result = Err /\ trace.n_cmaes = 0 /\ trace.n_lbfgsb = 0)

\* C15: no objective evaluation returns NaN: neither the one evaluate_svi
\* returns nor the one calibrate_model pairs with its incumbent.
C15_ObjectiveNeverNaN ==
    /\ (pc = "evaluated" /\ evalRes.kind = "ok") => evalRes.obj # NaN
    /\ \A i \in 1..Len(trace.events) : trace.events[i].obj # NaN

\* C16: price_with_svi returns one record per observation, carrying its option
\* type, strike, underlying and time to expiry; the records are in
\* non-decreasing strike order, records of equal strike in input order; an
\* observation at another time to expiry than the slice is kept with
\* model_price = 0 and model_iv = 0.
C16_OneRecordPerObservation ==
    (pc = "returned" /\ fnIn.fn = "price_with_svi") =>
        LET data == fnIn.market_data
            n == Len(data)
            results == fnOut.price_with_svi
        IN  /\ Len(results) = n
            /\ \E from \in [1..n -> 1..n] :
                  /\ \A i, j \in 1..n : i # j => from[i] # from[j]
                  /\ \A i \in 1..n :
                        /\ results[i].option_type = data[from[i]].option_type
                        /\ results[i].strike_price = data[from[i]].strike_price
                        /\ results[i].underlying_price = data[from[i]].underlying_price
                        /\ results[i].years_to_exp = data[from[i]].years_to_exp
                        /\ data[from[i]].years_to_exp # fnIn.params.t =>
                              (results[i].model_price = 0 /\ results[i].model_iv = 0)
                  /\ \A i, j \in 1..n : i < j =>
                        /\ results[i].strike_price <= results[j].strike_price
                        /\ results[i].strike_price = results[j].strike_price
                              => from[i] < from[j]

\* three observations were priced: the first at the highest strike and another
\* time to expiry, then a put and a call at one strike
C16_MismatchKeptTiesInOrder ==
    /\ pc = "returned"
    /\ fnIn.fn = "price_with_svi"
    /\ fnIn.params.a = 5
    /\ Len(fnIn.market_data) = 3
    /\ fnIn.market_data[1].years_to_exp = 200
    /\ fnIn.market_data[2].option_type = "Put"
    /\ fnIn.market_data[3].option_type = "call"
    /\ fnIn.market_data[3].strike_price = 10000
    /\ Len(fnOut.price_with_svi) = 3
    /\ fnOut.price_with_svi[1].option_type = "Put" /\ fnOut.price_with_svi[1].model_price > 0
    /\ fnOut.price_with_svi[2].option_type = "call" /\ fnOut.price_with_svi[2].model_price > 0
    /\ fnOut.price_with_svi[3].years_to_exp = 200 /\ fnOut.price_with_svi[3].model_price = 0

\* C17: expand_bounds_if_needed(x, p, f), for every coordinate with the bounds
\* [l, u] before the call: the lower edge is lowered by f(u-l) exactly when x
\* is within p(u-l) of l, the upper edge is raised by f(u-l) exactly when x is
\* within p(u-l) of u, every other edge is unchanged, and the value returned is
\* true if and only if at least one edge moved.
C17_TrueIffAnEdgeMoved ==
    (pc = "returned" /\ fnIn.fn = "expand_bounds_if_needed") =>
        LET old == fnIn.cal.param_bounds
            new == fnOut.expand_bounds_if_needed.cal.param_bounds
            x == fnIn.params
            near(i) == ((old[i][2] - old[i][1]) * fnIn.proximity_threshold) \div 100
            by(i) == ((old[i][2] - old[i][1]) * fnIn.expansion_factor) \div 100
        IN  /\ \A i \in 1..5 :
                 /\ new[i][1] = IF x[i] - old[i][1] <= near(i)
                                THEN old[i][1] - by(i) ELSE old[i][1]
                 /\ new[i][2] = IF old[i][2] - x[i] <= near(i)
                                THEN old[i][2] + by(i) ELSE old[i][2]
            /\ fnOut.expand_bounds_if_needed.adjusted <=> (\E i \in 1..5 : new[i] # old[i])

\* C18: SVIParams::new(t, a, b, rho, m, sigma) returns Ok, with the six values as
\* given, if and only if t > 0 and finite, a finite, b > 0 and finite,
\* -1 < rho < 1, m finite, sigma > 0 and finite, and
\* a + b sigma sqrt(1 - rho^2) >= 0; in every other case (rho = -1 or 1, b = 0
\* and sigma = 0 among them) it returns an error and no parameters.
C18_OkIffAdmissible ==
    (pc = "returned" /\ fnIn.fn = "SVIParams::new") =>
        LET p == fnIn.args
            NonFinite == {NaN, Infinity, -Infinity}
            admissible ==
                /\ p.t \notin NonFinite /\ p.t > 0
                /\ p.a \notin NonFinite
                /\ p.b \notin NonFinite /\ p.b > 0
                /\ p.rho \notin NonFinite /\ -100 < p.rho /\ p.rho < 100
                /\ p.m \notin NonFinite
                /\ p.sigma \notin NonFinite /\ p.sigma > 0
                /\ p.a + (p.b * p.sigma * Sqrt(10000 - p.rho * p.rho)) \div 10000 >= 0
        IN  /\ fnOut.SVIParams_new.ok <=> admissible
            /\ fnOut.SVIParams_new.ok => fnOut.SVIParams_new.val = p
            /\ ~fnOut.SVIParams_new.ok => fnOut.SVIParams_new.val = <<>>

\* a call with rho = 1 and every other argument admissible was refused
C18_RhoOneRefused ==
    /\ pc = "returned"
    /\ fnIn.fn = "SVIParams::new"
    /\ fnIn.args = [t |-> 25, a |-> 4, b |-> 20, rho |-> 100, m |-> 0, sigma |-> 20]
    /\ ~fnOut.SVIParams_new.ok

\* C19: evaluate_objective is a pure function of (x, market slice, calibrator
\* settings): while the evaluations of one population run at once, in any
\* interleaving, no step changes the calibrator (bounds, anchor, regularisation
\* strength), the market slice or the population, and every evaluation that has
\* returned has returned the value of a sequential evaluation.
C19_ConcurrentEqualsSequential ==
    [][(pc = "evaluating") =>
          /\ fnIn' = fnIn
          /\ \A w \in Workers :
                fnOut'.frames[w].at = "done" =>
                    fnOut'.frames[w].ret = evaluate_objective(fnIn.cal, fnIn.pop[w],
                                                       MarketData(fnIn.data))]_vars

\* one evaluation has returned a fit's value with a penalty while another, of
\* another candidate, is in the middle of its loop over the rows
C19_OneDoneOneMidLoop ==
    /\ pc = "evaluating"
    /\ fnIn.cal.temporal_reg_lambda = 100
    /\ fnIn.pop[1] # fnIn.pop[2]
    /\ fnOut.frames[1].at = "rows"
    /\ fnOut.frames[1].row = 2
    /\ fnOut.frames[1].valid_points = 1
    /\ fnOut.frames[2].at = "done"
    /\ fnOut.frames[2].ret # Sentinel
    /\ fnOut.frames[2].ret # NaN

\* C20: build_fixed_time_metrics returns one entry for every requested fixed
\* day whose target time lies inside the observed maturity range; a target
\* below the shortest maturity is omitted when allow_short_extrapolate is false
\* and present when it is true, a target above the longest maturity is omitted
\* when allow_long_extrapolate is false and present when it is true; the
\* entries are in ascending tte_days order.
C20_EntryPerAdmittedDay ==
    (/\ pc = "returned"
     /\ fnIn.fn = "build_fixed_time_metrics"
     /\ fnOut.build_fixed_time_metrics.ok) =>
        LET cfg == fnIn.temp_config
            metrics == fnOut.build_fixed_time_metrics.val
            ttes == {fnIn.data[i].years_to_exp : i \in 1..Len(fnIn.data)}
            shortest == CHOOSE t \in ttes : \A u \in ttes : t <= u
            longest == CHOOSE t \in ttes : \A u \in ttes : t >= u
            admitted(day) ==
                /\ day < shortest => cfg.allow_short_extrapolate
                /\ day > longest => cfg.allow_long_extrapolate
            requested == {cfg.fixed_days[d] : d \in 1..Len(cfg.fixed_days)}
        IN  /\ \A day \in requested :
                 Cardinality({i \in 1..Len(metrics) : metrics[i].tte_days = day})
                   = IF admitted(day) THEN 1 ELSE 0
            /\ \A i, j \in 1..Len(metrics) :
                 i < j => metrics[i].tte_days <= metrics[j].tte_days

\* C21: build_linear_iv returns an error when fewer than min_points
\* observations are supplied or when tte <= 0; build_fixed_time_metrics returns
\* an error on empty data, on fewer distinct maturities than min_maturities,
\* and whenever build_linear_iv fails for a maturity group (here: a group of
\* fewer than min_points quotes); an error carries no metrics.
C21_ErrorsOfLinearIv ==
    /\ (pc = "returned" /\ fnIn.fn = "build_linear_iv") =>
          ((Len(fnIn.points) < fnIn.config.min_points \/ fnIn.tte <= 0)
              => ~fnOut.build_linear_iv.ok)
    /\ (pc = "returned" /\ fnIn.fn = "build_fixed_time_metrics") =>
          LET data == fnIn.data
              ttes == {data[i].years_to_exp : i \in 1..Len(data)}
              quotes(t) == Cardinality({i \in 1..Len(data) : data[i].years_to_exp = t})
              out == fnOut.build_fixed_time_metrics
          IN  /\ data = <<>> => ~out.ok
              /\ Cardinality(ttes) < fnIn.temp_config.min_maturities => ~out.ok
              /\ (\E t \in ttes : quotes(t) < fnIn.strike_config.min_points) => ~out.ok
              /\ ~out.ok => out.val = <<>>

\* a chain whose second maturity has two quotes was refused although two
\* maturities were enough and days were requested
C21_SparseGroupRefused ==
    /\ pc = "returned"
    /\ fnIn.fn = "build_fixed_time_metrics"
    /\ Len(fnIn.data) = 5
    /\ fnIn.temp_config.min_maturities = 2
    /\ fnIn.temp_config.fixed_days = <<1, 7, 14, 21>>
    /\ ~fnOut.build_fixed_time_metrics.ok

\* C22: in a calibrate_model run L-BFGS-B is called exactly when
\* lbfgsb_enabled, from the incumbent; the point it returns replaces the
\* incumbent only when the call is Ok and its objective is strictly lower; on
\* an equal or higher objective, on an error and when it is disabled the run
\* returns the incumbent unchanged; the returned objective is never greater
\* than the incumbent's.
C22_RefinementOnlyImproves ==
    (pc = "done" /\ trace.events # <<>> /\ ~inp.config.adaptive_bounds.enabled) =>
        LET Events(op) == SelectSeq(trace.events, LAMBDA e : e.op = op)
            inc == Events("incumbent")[1]
            called == Events("lbfgsb")
            refine_res == trace.refine_res
            loc_obj == evaluate_objective(cal, refine_res.sol, MarketData(inp.data))
            improved == called # <<>> /\ refine_res.ok /\ lt(loc_obj, inc.obj)
        IN  /\ called # <<>> <=> inp.config.cmaes.lbfgsb_enabled
            /\ called # <<>> => called[1].at = inc.at
            /\ result.kind = "ok"
            /\ improved => (result.obj = loc_obj /\ result.params = refine_res.sol)
            /\ ~improved => (result.obj = inc.obj /\ result.params = inc.at.val)
            /\ ~lt(inc.obj, result.obj)

\* L-BFGS-B returned Ok with another point of the same objective as the
\* incumbent's, and the incumbent was returned
C22_TieKeepsIncumbent ==
    /\ pc = "done"
    /\ trace.events # <<>>
    /\ ~inp.config.adaptive_bounds.enabled
    /\ inp.config.cmaes.lbfgsb_enabled
    /\ trace.refine_res.ok
    /\ trace.refine_res.sol # result.params
    /\ evaluate_objective(cal, trace.refine_res.sol, MarketData(inp.data)) = result.obj

\* C23: with adaptive bounds enabled the loop runs calibrate_model at most
\* max_iterations times, calls expand_bounds_if_needed once after each run
\* with the parameters that run returned, stops after the first run whose
\* expansion call moved no bound, and the call always returns (every optimizer
\* run returning).
C23_AdaptiveLoopBounded ==
    /\ []((pc \in {"run", "done"} /\ inp.config.adaptive_bounds.enabled
              /\ result.kind # "err") =>
             /\ iter <= inp.config.adaptive_bounds.max_iterations
             /\ trace.n_expand = iter
             /\ trace.n_moved = (IF stopped THEN iter - 1 ELSE iter)
             /\ pc = "done" =>
                   (stopped \/ iter = inp.config.adaptive_bounds.max_iterations))
    /\ [][(pc = "run" /\ inp.config.adaptive_bounds.enabled /\ iter' = iter + 1) =>
             LET inc == SelectSeq(trace'.events, LAMBDA e : e.op = "incumbent")[1]
                 refine_res == trace'.refine_res
                 loc_obj == evaluate_objective(cal, refine_res.sol,
                                               MarketData(inp.data))
                 params == IF /\ inp.config.cmaes.lbfgsb_enabled
                              /\ refine_res.ok
                              /\ lt(loc_obj, inc.obj)
                           THEN refine_res.sol ELSE inc.at.val
                 ex == expand_bounds_if_needed(
                           cal, params,
                           inp.config.adaptive_bounds.proximity_threshold,
                           inp.config.adaptive_bounds.expansion_factor)
             IN  /\ ~stopped
                 /\ cal' = ex.cal
                 /\ stopped' = ~ex.adjusted]_vars
    /\ (pc = "run" ~> pc = "done")

\* the loop stopped below its cap, after an expansion call that moved no bound
C23_StoppedBeforeCap ==
    /\ pc = "done"
    /\ inp.config.adaptive_bounds.enabled
    /\ result.kind = "ok"
    /\ stopped
    /\ iter >= 1
    /\ iter < inp.config.adaptive_bounds.max_iterations

\* C24: with adaptive bounds enabled and at least one iteration executed, the
\* (f, x) returned is the result of the iteration with the smallest objective
\* among all iterations executed (the earliest one on ties), f being the
\* objective that iteration reported for x, and the bounds returned are the
\* calibrator's bounds after the last expansion call.
C24_BestIterationReturned ==
    (/\ pc = "done"
     /\ inp.config.adaptive_bounds.enabled
     /\ result.kind = "ok"
     /\ trace.runs # <<>>) =>
        /\ \E i \in 1..Len(trace.runs) :
              /\ result.obj = trace.runs[i].obj
              /\ result.params = trace.runs[i].params
              /\ \A j \in 1..Len(trace.runs) :
                    IF j < i THEN lt(trace.runs[i].obj, trace.runs[j].obj)
                    ELSE le(trace.runs[i].obj, trace.runs[j].obj)
        /\ result.bounds = SVIParamBounds_from(cal.param_bounds)

\* C25: when calibrate_model_adaptive stops before max_iterations, an
\* expansion call having moved no bound, every coordinate of the returned
\* vector is farther than proximity_threshold * (u - l) from both ends of its
\* returned interval.
C25_EarlyStopIsInterior ==
    (/\ pc = "done"
     /\ inp.config.adaptive_bounds.enabled
     /\ result.kind = "ok"
     /\ stopped
     /\ iter < inp.config.adaptive_bounds.max_iterations) =>
        \A i \in 1..Len(result.params) :
            LET l == cal.param_bounds[i][1]
                u == cal.param_bounds[i][2]
                margin == ((u - l) * inp.config.adaptive_bounds.proximity_threshold)
                              \div 100
            IN  /\ result.params[i] - l > margin
                /\ u - result.params[i] > margin

\* C26: evaluate_objective returns exactly the sentinel whenever SVIParams::new
\* rejects the vector, whenever no observation is usable (none with the
\* calibrator's expiry tag and a positive market IV), and whenever the total
\* weight of the usable observations is not above 1e-12.
C26_SentinelWhenUnusable ==
    (pc = "returned" /\ fnIn.fn = "evaluate_objective") =>
        LET c == fnIn.calibrator
            x == fnIn.x
            data == MarketData(fnIn.market)
            rejected == ~SVIParams_new(c.expiration[2], x[1], x[2], x[3], x[4], x[5]).ok
            usable == SelectSeq(data, LAMBDA row :
                          row.expiration = c.expiration[1] /\ lt(0, row.market_iv))
            weight == SumSeq([i \in 1..Len(usable) |-> row_weight(c, usable[i])])
        IN  (rejected \/ usable = <<>> \/ weight <= 0) =>
                fnOut.evaluate_objective = Sentinel

\* C27: for every x whose unregularized loss L is not the sentinel,
\* evaluate_objective returns L + lambda * sum (x_i - x_prev_i)^2 when an
\* anchor of length 5 and lambda > 0 are set, and L when no anchor is set or
\* lambda = 0; set_prev_solution ignores a vector whose length is not the
\* parameter count, so the anchor is the last vector of length 5 it was given.
C27_AnchorPenalty ==
    (pc = "returned" /\ fnIn.fn = "evaluate_objective") =>
        LET c == fnIn.calibrator
            x == fnIn.x
            fives == SelectSeq(fnIn.anchors, LAMBDA v : Len(v) = 5)
            x_prev == IF fives = <<>> THEN None ELSE Some(fives[Len(fives)])
            L == evaluate_objective([c EXCEPT !.prev_solution = None], x,
                                    MarketData(fnIn.market))
            squares == SumSeq([i \in 1..5 |->
                                 (x[i] - x_prev.val[i]) * (x[i] - x_prev.val[i])])
        IN  /\ c.prev_solution = x_prev
            /\ (L # Sentinel /\ L # NaN) =>
                  fnOut.evaluate_objective =
                      (IF x_prev.some /\ fnIn.lambda > 0
                       THEN L + (squares * fnIn.lambda) \div 10000
                       ELSE L)

\* an anchor was set, a vector of length 4 was then refused, and the loss of a
\* vector away from the anchor carries the penalty
C27_PenaltyAfterRefusedAnchor ==
    /\ pc = "returned"
    /\ fnIn.fn = "evaluate_objective"
    /\ fnIn.anchors = <<GuessGood, <<0, 0, 0, 0>>>>
    /\ fnIn.lambda = 100
    /\ fnIn.x = <<50, 100, -30, 0, 40>>
    /\ fnIn.market = "single"
    /\ fnOut.evaluate_objective # Sentinel
    /\ fnOut.evaluate_objective >
           evaluate_objective([fnIn.calibrator EXCEPT !.prev_solution = None],
                              fnIn.x, MarketData("single"))

\* C28: in evaluate_objective the vega factor of an observation's weight is
\* max(vega, 1) when use_vega_weighting is true and 1 when it is false, for
\* every vega >= 0: the objective is the one of the same slice with every vega
\* below 1 raised to 1 (and, without vega weighting, with every vega set to 1).
C28_VegaFactorIsMaxVegaOne ==
    (pc = "returned" /\ fnIn.fn = "evaluate_objective") =>
        LET c == fnIn.calibrator
            data == MarketData(fnIn.market)
            floored == [i \in 1..Len(data) |->
                          [data[i] EXCEPT !.vega =
                              IF c.params.use_vega_weighting /\ @ > 100
                              THEN @ ELSE 100]]
        IN  fnOut.evaluate_objective = evaluate_objective(c, fnIn.x, floored)

C30_ResultInsideReturnedBounds ==
    (/\ pc = "done"
     /\ result.kind = "ok"
     /\ inp.calib_params.param_bounds # Some(InvertedBounds)) =>
        LET returned == <<result.bounds.a, result.bounds.b, result.bounds.rho,
                          result.bounds.m, result.bounds.sigma>>
        IN  \A i \in 1..Len(result.params) :
                /\ returned[i][1] <= result.params[i]
                /\ result.params[i] <= returned[i][2]

====
